---- MODULE Spec2Model ----
(***************************************************************************)
(* Verification model of polymarket-insider-tracker.                       *)
(*                                                                         *)
(* The module holds one state machine per component; each component has   *)
(* its own variables, its own Init/Next and its own specification, and    *)
(* leaves the variables of the other components untouched.                 *)
(*                                                                         *)
(*   SpecDispatch  alerter/dispatcher.py   circuit breaker, dispatch       *)
(*   SpecScorer    detector/scorer.py      weighted score, dedup           *)
(*   SpecRate      alerter/channels/*.py   per-adapter rate limiter, retry *)
(*   SpecStream    ingestor/publisher.py   Redis stream, consumer group    *)
(*   SpecWs        ingestor/websocket.py   trade-stream connection         *)
(*   SpecChain     profiler/chain.py       RPC retry, failover, token      *)
(*                                         bucket                          *)
(*   SpecFeed      ingestor/websocket.py,  trade frames to TradeEvents     *)
(*                 ingestor/models.py                                      *)
(*   SpecAnalyzer  profiler/analyzer.py    wallet profiles, freshness      *)
(*   SpecFund      profiler/funding.py     funding chain trace             *)
(*   SpecSniper    detector/sniper.py      cluster signals                 *)
(*   SpecHist      alerter/history.py      alert dedup key                 *)
(*   SpecMsync     ingestor/metadata_sync.py   start, stop, sync loop      *)
(*   SpecHealth    ingestor/health.py      staleness, overall status       *)
(*   SpecShutdown  shutdown.py              signals, cleanup callbacks      *)
(*   SpecGather    alerter/dispatcher.py    dispatch over the channel list  *)
(*   SpecCodec     ingestor/publisher.py    stream form of a TradeEvent     *)
(*   SpecUsdc      profiler/funding.py      first USDC transfer             *)
(*   SpecClusterId detector/sniper.py       id of a detected cluster        *)
(*   SpecClob      ingestor/clob_client.py  acquire_sync across threads     *)
(*   SpecNonce     profiler/chain.py        batch nonce lookup              *)
(*                                                                         *)
(* SpecDispatchFair, SpecStreamFair and SpecWsFair add the fairness under  *)
(* which the liveness properties of those components are checked.          *)
(***************************************************************************)
EXTENDS Integers, Sequences, FiniteSets, TLC

(***************************************************************************)
(* Shared helpers                                                          *)
(***************************************************************************)

\* None for an optional timestamp (datetime | None, float | None).
NoTime == -1

Min(a, b) == IF a <= b THEN a ELSE b

VARIABLES
    now,            \* the clock (datetime.now, loop.time), in whole time units
    \* ---- alerter/dispatcher.py --------------------------------------
    channels,       \* AlertDispatcher.channels (names of the adapters)
    circuit,        \* AlertDispatcher._circuit_state: name -> CircuitBreakerState
    dcall,          \* per dispatch() call: "idle" | "gather"
    spc,            \* per call and channel: position and outcome of _send_to_channel
    lastResult,     \* the DispatchResult that dispatch() returned last
    \* history of the dispatcher (not program state)
    closedFails,    \* sends failed in a row on a channel while its circuit was closed
    openAttempts,   \* sends started on a channel since its circuit opened
    deliverable,    \* per channel: its service is up, channel.send delivers
    \* ---- detector/scorer.py -----------------------------------------
    weights,        \* RiskScorer._weights, in hundredths
    dedup,          \* the dedup keys in Redis: key -> expiry time, or NoTime
    apc,            \* per assess() call: "idle" | "dedup" (awaiting redis.set)
    abundle,        \* per assess() call: the SignalBundle being assessed
    ascore,         \* per assess() call: the (score, signals_triggered) it computed
    lastAssessment, \* the RiskAssessment that assess() returned last
    \* history of the scorer (not program state)
    dedupLog,       \* the assessments that met the threshold, in order of completion
    clears,         \* per key: clear_dedup calls that deleted it
    lastHadEntry,   \* the dedup key of the last assessment was there when it was made
    weightSets,     \* the set_weights calls so far
    \* ---- alerter/channels/discord.py, telegram.py --------------------
    request_times,  \* _request_times: the instants the limiter recorded
    rlLock,         \* _lock: the send() call holding it, or 0
    rlQueue,        \* the send() calls waiting for _lock, first come first
    rpc,            \* per send() call: its position
    rlNow,          \* per send() call: the local "now" of _wait_for_rate_limit
    rwake,          \* per send() call: when its asyncio.sleep ends
    rattempt,       \* per send() call: the retry loop's "attempt"
    httpLog,        \* the POSTs issued: instant and attempt (history)
    \* ---- ingestor/publisher.py ---------------------------------------
    stream,         \* the Redis stream: the payload of each entry, id = position
    last_delivered, \* the consumer group's last-delivered id
    pel,            \* the group's pending entries list: id -> owner, time, count
    held,           \* per consumer: the StreamEntry ids it was handed and has not acked
    crashed,        \* per consumer: its process is down
    \* history of the stream (not program state)
    ackedIds,       \* the ids XACK has acknowledged for the group
    lastRead,       \* the last read_events / read_pending call and what it returned
    \* ---- ingestor/websocket.py ---------------------------------------
    wsState,        \* TradeStreamHandler._state
    running,        \* TradeStreamHandler._running
    ws,             \* TradeStreamHandler._ws: a socket id, or 0 for None
    sockets,        \* per socket id: "none" | "open" | "closed_ok" | "closed_error"
    listenSock,     \* the ws argument of the _listen call in progress
    startPc,        \* position of the start() call
    stopPc,         \* position of the stop() call
    delay,          \* _reconnect_loop's local delay
    stopReturned,   \* stop() has returned and start() was not called since (history)
    startRaised,    \* start() raised on its initial connect and was not called since (history)
    \* history of the handler (not program state)
    lastEdges,      \* the state changes _set_state made in the last step
    \* ---- profiler/chain.py -------------------------------------------
    hasFallback,    \* PolygonClient._w3_fallback is not None
    tokens,         \* RateLimiter.tokens
    last_refill,    \* RateLimiter.last_refill
    primary_healthy,     \* PolygonClient._primary_healthy
    last_primary_check,  \* PolygonClient._last_primary_check
    cpc,            \* per _execute_with_retry call: its position or outcome
    cattempt,       \* per call: the loop's "attempt"
    cdelay,         \* per call: the local "delay"
    cwake,          \* per call: when its asyncio.sleep ends
    \* history of the chain client (not program state)
    cinfo,          \* per call: the primary's health and the probe flag at its start
    rpcLog,         \* the RPC requests sent, in order
    acquired,       \* the tokens taken from the bucket
    \* ---- ingestor/websocket.py, ingestor/models.py (trade frames) ----
    delivered,      \* the TradeEvents handed to the trade callback, in order (history)
    trades_received,     \* StreamStats.trades_received
    framesHandled,  \* the text frames _handle_message has taken (history)
    \* ---- profiler/analyzer.py ----------------------------------------
    fresh_threshold,     \* WalletAnalyzer._fresh_threshold
    profileCache,   \* the cached profile of each wallet in Redis, or NoProfile
    lastProfile,    \* the WalletProfile that analyze() returned last
    \* ---- profiler/funding.py -----------------------------------------
    first_sender,   \* per address: the sender of the first USDC transfer into it
    terminals,      \* the addresses the EntityRegistry takes as terminal
    max_hops,       \* FundingTracer.max_hops
    tpc,            \* position of the trace() call: "idle" | "loop" | "return" | "done"
    override_hops,  \* trace's max_hops argument, or NoOverride
    effective_max_hops,  \* trace's local effective_max_hops
    hop,            \* the loop's "hop"
    target,         \* trace's normalized_address
    chain,          \* trace's local chain
    current_address,     \* trace's local current_address
    origin_address, \* trace's local origin_address
    origin_type,    \* trace's local origin_type
    lookups,        \* get_first_usdc_transfer calls of the trace (history)
    lastChain,      \* the FundingChain that trace() returned last
    \* ---- detector/sniper.py ------------------------------------------
    wallet_entries, \* per wallet: the number of its entries in _wallet_entries
    signaled_wallets,    \* SniperDetector._signaled_wallets
    \* history of the detector (not program state)
    lastLabels,     \* the labels DBSCAN gave in the last run
    dataChanged,    \* the entries changed since the last run
    lastSignals,    \* the signals the last run_clustering returned (their wallets)
    lastRerun,      \* the last run was on the same entries as the run before
    signalCount,    \* per wallet: the signals emitted for it so far
    runs,           \* the run_clustering calls so far
    \* ---- alerter/history.py ------------------------------------------
    alertDedup,     \* the alert:dedup: keys in Redis
    hpc,            \* per worker: "idle" | "send" (should_send said True)
    hkey,           \* per worker: wallet:market of the assessment it handles
    sendLog,        \* the should_send calls and what they returned (history)
    \* ---- ingestor/metadata_sync.py -----------------------------------
    syncState,      \* MarketMetadataSync._state
    stop_event,     \* MarketMetadataSync._stop_event is set
    sync_task,      \* MarketMetadataSync._sync_task: a task id, or 0 for None
    taskPc,         \* per background task: "none" | "wait" | "sync" | "done"
    mstartPc,       \* per start() call: "idle" | "sync" (awaiting the initial sync)
    mstopPc,        \* the stop() call: "idle" | "await" (awaiting the cancelled task)
    successful_syncs,    \* SyncStats.successful_syncs
    total_syncs,    \* SyncStats.total_syncs
    failed_syncs,   \* SyncStats.failed_syncs
    lastStart,      \* how the last start() call ended (history)
    \* ---- ingestor/health.py ------------------------------------------
    streams,        \* HealthMonitor._streams: name -> StreamHealth
    lastReport,     \* the HealthReport that get_health_report returned last
    \* history of the monitor (not program state)
    quietSince,     \* per stream: since when it is connected without an event
    quietAtCheck,   \* per stream: how long it was so at the last health check
    \* ---- shutdown.py -------------------------------------------------
    shutdown_event,       \* GracefulShutdown._shutdown_event: "none", "clear", "set"
    shutdown_requested,   \* _shutdown_requested
    force_exit_requested, \* _force_exit_requested
    cleanup_callbacks,    \* _cleanup_callbacks, in registration order
    handlersInstalled,    \* the loop holds _handle_signal for the signals
    exitCode,             \* the status sys.exit was called with, or NoExit
    waiterPc,             \* a coroutine in wait() or wait_with_timeout(), or "none"
    cleanupPc,            \* run_cleanup_callbacks: "idle", "running", "returned", "raised"
    cleanupPos,           \* position of its loop in _cleanup_callbacks
    \* history of the shutdown (not program state)
    invoked,              \* the callbacks the running call has invoked, in order
    signalsReceived,      \* signals delivered to _handle_signal
    lastSignal,           \* the last of them
    \* ---- alerter/dispatcher.py, dispatch over the channel list --------
    chanList,       \* AlertDispatcher.channels: the names of the channel objects, in order
    listCircuit,    \* _circuit_state: name -> CircuitBreakerState
    gpc,            \* dispatch(): "idle", "gather", "returned", "raised"
    sendPc,         \* per channel object: position/outcome of its _send_to_channel
    listResult,     \* the DispatchResult dispatch() returned last
    listCalls,      \* dispatch() calls made
    \* ---- ingestor/publisher.py: serialization -------------------------
    original,       \* the TradeEvent handed to publish
    wire,           \* its stream entry (field -> text), or NoWire
    decoded,        \* the TradeEvent read back, or NoTrade
    \* ---- profiler/funding.py: get_first_usdc_transfer -----------------
    tokenLogs,      \* per USDC contract: the Transfer logs to the address on the chain
    usdcPc,         \* get_first_usdc_transfer: "idle", "loop", "returned"
    usdcPos,        \* position of its loop in _usdc_addresses
    firstTransfer,  \* the transfer it returned, NoTransfer for None
    logsRaised,     \* history: a log query of this call raised
    \* ---- detector/sniper.py: cluster ids ------------------------------
    wallet_cluster_map, \* SniperDetector._wallet_cluster_map: wallet -> cluster id
    idsMade,            \* cluster ids made so far
    lastAssign,         \* history: the last cluster, its id, and the map before
    \* ---- ingestor/clob_client.py --------------------------------------
    last_request_time, \* RateLimiter._last_request_time
    clobPc,            \* per thread: "idle", "sleeping", "stamp"
    clobWake,          \* per thread: the instant its sleep ends
    requestTimes,      \* history: the instants at which REST requests started
    \* ---- profiler/chain.py (get_transaction_counts) -------------------
    nonceCache,     \* the nonce entries of the Redis cache: key -> count, or NoCount
    noncePc,        \* the batch call: "idle" | "gather" | "done"
    nonceAddrs,     \* the addresses the batch call was given
    nonceTasks,     \* per uncached address: the task made for it and how it ended
    nonceResults    \* the map the batch call builds and returns

dispVars == <<channels, circuit, dcall, spc, lastResult, closedFails, openAttempts,
             deliverable>>
scorerVars == <<weights, dedup, apc, abundle, ascore, lastAssessment, dedupLog, clears,
                lastHadEntry, weightSets>>
rateVars == <<request_times, rlLock, rlQueue, rpc, rlNow, rwake, rattempt, httpLog>>

streamVars == <<stream, last_delivered, pel, held, crashed, ackedIds, lastRead>>
wsVars == <<wsState, running, ws, sockets, listenSock, startPc, stopPc, delay,
           stopReturned, startRaised, lastEdges>>

chainVars == <<hasFallback, tokens, last_refill, primary_healthy,
              last_primary_check, cpc, cattempt, cdelay, cwake, cinfo, rpcLog,
              acquired>>

feedVars == <<delivered, trades_received, framesHandled>>

analyzerVars == <<fresh_threshold, profileCache, lastProfile>>

fundVars == <<first_sender, terminals, max_hops, tpc, override_hops,
             effective_max_hops, hop, target, chain, current_address,
             origin_address, origin_type, lookups, lastChain>>

sniperVars == <<wallet_entries, signaled_wallets, lastLabels, dataChanged, lastSignals, lastRerun, signalCount, runs>>

histVars == <<alertDedup, hpc, hkey, sendLog>>

msyncVars == <<syncState, stop_event, sync_task, taskPc, mstartPc, mstopPc, successful_syncs, total_syncs, failed_syncs,
              lastStart>>

healthVars == <<streams, lastReport, quietSince, quietAtCheck>>

shutdownVars == <<shutdown_event, shutdown_requested, force_exit_requested, cleanup_callbacks, handlersInstalled, exitCode, waiterPc, cleanupPc, cleanupPos, invoked, signalsReceived, lastSignal>>

gatherVars == <<chanList, listCircuit, gpc, sendPc, listResult, listCalls>>

codecVars == <<original, wire, decoded>>

usdcVars == <<tokenLogs, usdcPc, usdcPos, firstTransfer, logsRaised>>

clusteridVars == <<wallet_cluster_map, idsMade, lastAssign>>

clobVars == <<last_request_time, clobPc, clobWake, requestTimes>>

nonceVars == <<nonceCache, noncePc, nonceAddrs, nonceTasks, nonceResults>>

vars == <<now, dispVars, scorerVars, rateVars, streamVars, wsVars, chainVars,
         feedVars, analyzerVars, fundVars,
      sniperVars,
      histVars,
      msyncVars,
      healthVars,
      shutdownVars,
      gatherVars,
      codecVars,
      usdcVars,
      clusteridVars,
      clobVars,
      nonceVars>>

\* What each component leaves alone: the variables of the others.
dispOthers == <<scorerVars, rateVars, streamVars, wsVars, chainVars,
      feedVars, analyzerVars, fundVars,
      sniperVars,
      histVars,
      msyncVars,
      healthVars,
      shutdownVars,
      gatherVars,
      codecVars,
      usdcVars,
      clusteridVars,
      clobVars,
      nonceVars>>
scorerOthers == <<dispVars, rateVars, streamVars, wsVars, chainVars,
      feedVars, analyzerVars, fundVars,
      sniperVars,
      histVars,
      msyncVars,
      healthVars,
      shutdownVars,
      gatherVars,
      codecVars,
      usdcVars,
      clusteridVars,
      clobVars,
      nonceVars>>
rateOthers == <<dispVars, scorerVars, streamVars, wsVars, chainVars,
      feedVars, analyzerVars, fundVars,
      sniperVars,
      histVars,
      msyncVars,
      healthVars,
      shutdownVars,
      gatherVars,
      codecVars,
      usdcVars,
      clusteridVars,
      clobVars,
      nonceVars>>
streamOthers == <<dispVars, scorerVars, rateVars, wsVars, chainVars,
      feedVars, analyzerVars, fundVars,
      sniperVars,
      histVars,
      msyncVars,
      healthVars,
      shutdownVars,
      gatherVars,
      codecVars,
      usdcVars,
      clusteridVars,
      clobVars,
      nonceVars>>
wsOthers == <<now, dispVars, scorerVars, rateVars, streamVars, chainVars,
      feedVars, analyzerVars, fundVars,
      sniperVars,
      histVars,
      msyncVars,
      healthVars,
      shutdownVars,
      gatherVars,
      codecVars,
      usdcVars,
      clusteridVars,
      clobVars,
      nonceVars>>
chainOthers == <<dispVars, scorerVars, rateVars, streamVars, wsVars,
      feedVars, analyzerVars, fundVars,
      sniperVars,
      histVars,
      msyncVars,
      healthVars,
      shutdownVars,
      gatherVars,
      codecVars,
      usdcVars,
      clusteridVars,
      clobVars,
      nonceVars>>
feedOthers == <<now, dispVars, scorerVars, rateVars, streamVars, wsVars, chainVars,
      analyzerVars, fundVars,
      sniperVars,
      histVars,
      msyncVars,
      healthVars,
      shutdownVars,
      gatherVars,
      codecVars,
      usdcVars,
      clusteridVars,
      clobVars,
      nonceVars>>
analyzerOthers == <<now, dispVars, scorerVars, rateVars, streamVars, wsVars, chainVars,
      feedVars, fundVars,
      sniperVars,
      histVars,
      msyncVars,
      healthVars,
      shutdownVars,
      gatherVars,
      codecVars,
      usdcVars,
      clusteridVars,
      clobVars,
      nonceVars>>
fundOthers == <<now, dispVars, scorerVars, rateVars, streamVars, wsVars, chainVars,
      feedVars, analyzerVars,
      sniperVars,
      histVars,
      msyncVars,
      healthVars,
      shutdownVars,
      gatherVars,
      codecVars,
      usdcVars,
      clusteridVars,
      clobVars,
      nonceVars>>
sniperOthers == <<now, dispVars, scorerVars, rateVars, streamVars, wsVars, chainVars, feedVars, analyzerVars, fundVars,
      histVars,
      msyncVars,
      healthVars,
      shutdownVars,
      gatherVars,
      codecVars,
      usdcVars,
      clusteridVars,
      clobVars,
      nonceVars>>
histOthers == <<dispVars, scorerVars, rateVars, streamVars, wsVars, chainVars, feedVars, analyzerVars, fundVars, sniperVars,
      msyncVars,
      healthVars,
      shutdownVars,
      gatherVars,
      codecVars,
      usdcVars,
      clusteridVars,
      clobVars,
      nonceVars>>
msyncOthers == <<now, dispVars, scorerVars, rateVars, streamVars, wsVars, chainVars, feedVars, analyzerVars, fundVars, sniperVars, histVars,
      healthVars,
      shutdownVars,
      gatherVars,
      codecVars,
      usdcVars,
      clusteridVars,
      clobVars,
      nonceVars>>
healthOthers == <<dispVars, scorerVars, rateVars, streamVars, wsVars, chainVars, feedVars, analyzerVars, fundVars, sniperVars, histVars, msyncVars,
      shutdownVars,
      gatherVars,
      codecVars,
      usdcVars,
      clusteridVars,
      clobVars,
      nonceVars>>
shutdownOthers == <<now, dispVars, scorerVars, rateVars, streamVars, wsVars, chainVars, feedVars, analyzerVars, fundVars, sniperVars, histVars, msyncVars, healthVars,
      gatherVars,
      codecVars,
      usdcVars,
      clusteridVars,
      clobVars,
      nonceVars>>
gatherOthers == <<dispVars, scorerVars, rateVars, streamVars, wsVars, chainVars, feedVars, analyzerVars, fundVars, sniperVars, histVars, msyncVars, healthVars, shutdownVars,
      codecVars,
      usdcVars,
      clusteridVars,
      clobVars,
      nonceVars>>
codecOthers == <<now, dispVars, scorerVars, rateVars, streamVars, wsVars, chainVars, feedVars, analyzerVars, fundVars, sniperVars, histVars, msyncVars, healthVars, shutdownVars, gatherVars,
      usdcVars,
      clusteridVars,
      clobVars,
      nonceVars>>
usdcOthers == <<now, dispVars, scorerVars, rateVars, streamVars, wsVars, chainVars, feedVars, analyzerVars, fundVars, sniperVars, histVars, msyncVars, healthVars, shutdownVars, gatherVars, codecVars,
      clusteridVars,
      clobVars,
      nonceVars>>
clusteridOthers == <<now, dispVars, scorerVars, rateVars, streamVars, wsVars, chainVars, feedVars, analyzerVars, fundVars, sniperVars, histVars, msyncVars, healthVars, shutdownVars, gatherVars, codecVars, usdcVars,
      clobVars,
      nonceVars>>
clobOthers == <<dispVars, scorerVars, rateVars, streamVars, wsVars, chainVars, feedVars, analyzerVars, fundVars, sniperVars, histVars, msyncVars, healthVars, shutdownVars, gatherVars, codecVars, usdcVars, clusteridVars,
      nonceVars>>
nonceOthers == <<now, dispVars, scorerVars, rateVars, streamVars, wsVars, chainVars, feedVars, analyzerVars, fundVars, sniperVars, histVars, msyncVars, healthVars, shutdownVars, gatherVars, codecVars, usdcVars, clusteridVars, clobVars>>

(***************************************************************************)
(* alerter/dispatcher.py                                                   *)
(***************************************************************************)

AllChannels == {"discord", "telegram"}

\* Constructor parameters of AlertDispatcher (defaults 5, 60 s, 3), scaled down.
FailureThreshold == 2
RecoveryTimeout == 1
HalfOpenMax == 1

\* Concurrent dispatch() calls, and the last instant the clock reaches.
NumDispatch == 2
MaxTime == 3

Calls == 1..NumDispatch

\* dispatch() calls that may be in flight together: the interleaving of
\* concurrent calls is explored on a single channel, several channels are
\* explored one call at a time (channels share no state but the gather).
MaxInFlight(chs) == IF Cardinality(chs) > 1 THEN 1 ELSE NumDispatch

\* CircuitBreakerState()
NewCircuit ==
    [failure_count |-> 0, last_failure_time |-> NoTime,
     is_open |-> FALSE, half_open_attempts |-> 0]

\* A _should_attempt that needs more than recovery_timeout to have elapsed.
ShouldAttemptLate(st, t) ==
    IF ~st.is_open THEN TRUE
    ELSE IF st.last_failure_time # NoTime
              /\ t - st.last_failure_time > RecoveryTimeout
              /\ st.half_open_attempts < HalfOpenMax
         THEN TRUE
         ELSE FALSE

\* AlertDispatcher._should_attempt, on the channel's state st at time t
ShouldAttempt(st, t) ==
    IF ~st.is_open THEN TRUE
    ELSE IF st.last_failure_time # NoTime
              /\ t - st.last_failure_time >= RecoveryTimeout
              /\ st.half_open_attempts < HalfOpenMax
         THEN TRUE
         ELSE FALSE

\* AlertDispatcher._record_success
RecordSuccess(st) ==
    [st EXCEPT !.failure_count = 0, !.is_open = FALSE,
               !.half_open_attempts = 0, !.last_failure_time = NoTime]

\* A _record_failure that opens the circuit one failure early.
RecordFailureEarly(st, t) ==
    LET s1 == [st EXCEPT !.failure_count = @ + 1, !.last_failure_time = t]
    IN  IF s1.is_open THEN [s1 EXCEPT !.half_open_attempts = @ + 1]
        ELSE IF s1.failure_count >= FailureThreshold - 1
             THEN [s1 EXCEPT !.is_open = TRUE]
             ELSE s1

\* AlertDispatcher._record_failure
RecordFailure(st, t) ==
    LET s1 == [st EXCEPT !.failure_count = @ + 1, !.last_failure_time = t]
    IN  IF s1.is_open THEN [s1 EXCEPT !.half_open_attempts = @ + 1]
        ELSE IF s1.failure_count >= FailureThreshold
             THEN [s1 EXCEPT !.is_open = TRUE]
             ELSE s1

\* The (name, bool) pair _send_to_channel returned, read off its final position.
SendResult(p) == p = "ok"

\* DispatchResult built by dispatch() from the gathered (name, bool) pairs
MakeResult(chs, pcs) ==
    LET ok == Cardinality({c \in chs : SendResult(pcs[c])})
    IN  [success_count |-> ok,
         failure_count |-> Cardinality(chs) - ok,
         channel_results |-> [c \in chs |-> SendResult(pcs[c])]]

\* DispatchResult.all_succeeded
AllSucceeded(r) == r.failure_count = 0 /\ r.success_count > 0

NoResult == [success_count |-> -1, failure_count |-> -1, channel_results |-> <<>>]

SendDone(p) == p \in {"ok", "failed", "skipped"}

DispInit ==
    /\ channels \in SUBSET AllChannels
    /\ circuit = [c \in channels |-> NewCircuit]
    /\ dcall = [d \in Calls |-> "idle"]
    /\ spc = [d \in Calls |-> [c \in channels |-> "none"]]
    /\ lastResult = NoResult
    /\ closedFails = [c \in channels |-> 0]
    /\ openAttempts = [c \in channels |-> 0]
    /\ deliverable \in [channels -> BOOLEAN]

\* The dispatcher with no channel and nothing in flight, as the other
\* components' specifications hold it.
DispQuiet ==
    /\ channels = {}
    /\ circuit = <<>>
    /\ dcall = [d \in Calls |-> "idle"]
    /\ spc = [d \in Calls |-> <<>>]
    /\ lastResult = NoResult
    /\ closedFails = <<>>
    /\ openAttempts = <<>>
    /\ deliverable = <<>>

\* dispatch() up to asyncio.gather: with no channel it returns at once,
\* otherwise one _send_to_channel coroutine per channel is scheduled.
DispatchCall(d) ==
    /\ dcall[d] = "idle"
    /\ Cardinality({e \in Calls : dcall[e] = "gather"}) < MaxInFlight(channels)
    /\ IF channels = {}
       THEN /\ lastResult' = [success_count |-> 0, failure_count |-> 0,
                              channel_results |-> <<>>]
            /\ UNCHANGED <<dcall, spc>>
       ELSE /\ dcall' = [dcall EXCEPT ![d] = "gather"]
            /\ spc' = [spc EXCEPT ![d] = [c \in channels |-> "ready"]]
            /\ UNCHANGED lastResult
    /\ UNCHANGED <<now, channels, deliverable, circuit, closedFails, openAttempts>>
    /\ UNCHANGED dispOthers

\* _send_to_channel up to its await: the circuit check, then either the skip
\* (return (name, False)) or the call of channel.send.
SendBegin(d, c) ==
    /\ dcall[d] = "gather"
    /\ spc[d][c] = "ready"
    /\ IF ShouldAttempt(circuit[c], now)
       THEN /\ spc' = [spc EXCEPT ![d][c] = "sending"]
            /\ openAttempts' = [openAttempts EXCEPT
                                  ![c] = IF circuit[c].is_open THEN @ + 1 ELSE @]
       ELSE /\ spc' = [spc EXCEPT ![d][c] = "skipped"]
            /\ UNCHANGED openAttempts
    /\ UNCHANGED <<now, channels, deliverable, circuit, dcall, lastResult, closedFails>>
    /\ UNCHANGED dispOthers

\* channel.send returned True: _record_success, return (name, True)
SendSucceeds(d, c) ==
    /\ spc[d][c] = "sending"
    /\ deliverable[c]
    /\ circuit' = [circuit EXCEPT ![c] = RecordSuccess(@)]
    /\ spc' = [spc EXCEPT ![d][c] = "ok"]
    /\ closedFails' = [closedFails EXCEPT ![c] = 0]
    /\ openAttempts' = [openAttempts EXCEPT ![c] = 0]
    /\ UNCHANGED <<now, channels, deliverable, dcall, lastResult>>
    /\ UNCHANGED dispOthers

\* channel.send returned False, or raised: _record_failure, return (name, False)
SendFails(d, c) ==
    /\ spc[d][c] = "sending"
    /\ ~deliverable[c]
    /\ circuit' = [circuit EXCEPT ![c] = RecordFailure(@, now)]
    /\ spc' = [spc EXCEPT ![d][c] = "failed"]
    /\ closedFails' = [closedFails EXCEPT
                         ![c] = IF circuit[c].is_open THEN @ ELSE @ + 1]
    /\ openAttempts' = [openAttempts EXCEPT
                          ![c] = IF ~circuit[c].is_open /\ circuit'[c].is_open
                                 THEN 0 ELSE @]
    /\ UNCHANGED <<now, channels, deliverable, dcall, lastResult>>
    /\ UNCHANGED dispOthers

\* dispatch() after asyncio.gather: aggregate and return the DispatchResult
DispatchReturn(d) ==
    /\ dcall[d] = "gather"
    /\ \A c \in channels : SendDone(spc[d][c])
    /\ lastResult' = MakeResult(channels, spc[d])
    /\ dcall' = [dcall EXCEPT ![d] = "idle"]
    /\ spc' = [spc EXCEPT ![d] = [c \in channels |-> "none"]]
    /\ UNCHANGED <<now, channels, deliverable, circuit, closedFails, openAttempts>>
    /\ UNCHANGED dispOthers

\* AlertDispatcher.reset_circuit on a known channel
ResetCircuit(c) ==
    /\ circuit[c] # NewCircuit
    /\ circuit' = [circuit EXCEPT ![c] = NewCircuit]
    /\ closedFails' = [closedFails EXCEPT ![c] = 0]
    /\ openAttempts' = [openAttempts EXCEPT ![c] = 0]
    /\ UNCHANGED <<now, channels, deliverable, dcall, spc, lastResult>>
    /\ UNCHANGED dispOthers

\* The service behind a channel goes down, or comes up again
ChannelTurns(c) ==
    /\ deliverable' = [deliverable EXCEPT ![c] = ~@]
    /\ UNCHANGED <<now, channels, circuit, dcall, spc, lastResult, closedFails,
                   openAttempts>>
    /\ UNCHANGED dispOthers

\* the wall clock advances
DispTick ==
    /\ now < MaxTime
    /\ now' = now + 1
    /\ UNCHANGED <<channels, deliverable, circuit, dcall, spc, lastResult, closedFails, openAttempts>>
    /\ UNCHANGED dispOthers

DispNext ==
    \/ \E d \in Calls : DispatchCall(d)
    \/ \E d \in Calls, c \in channels : SendBegin(d, c)
    \/ \E d \in Calls, c \in channels : SendSucceeds(d, c)
    \/ \E d \in Calls, c \in channels : SendFails(d, c)
    \/ \E d \in Calls : DispatchReturn(d)
    \/ \E c \in channels : ResetCircuit(c)
    \/ \E c \in channels : ChannelTurns(c)
    \/ DispTick


(***************************************************************************)
(* detector/scorer.py                                                      *)
(*                                                                         *)
(* Confidences, weights and thresholds are in hundredths, scores in ten-   *)
(* thousandths (confidence * weight), so the arithmetic is exact.          *)
(***************************************************************************)

\* DEFAULT_WEIGHTS
DefaultWeights == [fresh_wallet |-> 40, size_anomaly |-> 35, niche_market |-> 25]

\* Weights a caller may install with set_weights or the constructor.
WeightChoices == {DefaultWeights,
                  [fresh_wallet |-> 100, size_anomaly |-> 100, niche_market |-> 100],
                  [fresh_wallet |-> -50, size_anomaly |-> 35, niche_market |-> 25]}

\* DEFAULT_ALERT_THRESHOLD (0.6) and the cap (1.0), in ten-thousandths
AlertThreshold == 6000
ScoreCap == 10000

\* dedup_window_seconds (default 3600), scaled down to time units
DedupWindow == 2

\* Concurrent assess() calls (assess_batch gathers them), the assessments of
\* a run that meet the threshold, the clear_dedup calls of a run, and the
\* last instant of the clock.
NumAssess == 2
MaxAssessments == 3
MaxClears == 1
ScorerMaxTime == 2
MaxSetWeights == 1

Assessors == 1..NumAssess

\* f"{wallet_address}:{market_id}" of the bundles' trades
DedupKeys == {"w1:m1", "w2:m1"}

\* No signal (fresh_wallet_signal / size_anomaly_signal is None)
NoSignal == -1

\* SignalBundle: the trade's wallet:market and the signals' confidences
\* (is_niche_market is a field of the size-anomaly signal)
\* a fresh-wallet signal alone, a niche size anomaly alone, or both signals
Bundles ==
    {b \in [key : DedupKeys, fresh : {NoSignal, 100}, size : {NoSignal, 100},
            niche : BOOLEAN] :
        /\ b.size = NoSignal => ~b.niche
        /\ b.fresh = NoSignal => b.niche
        /\ (b.fresh # NoSignal /\ b.size # NoSignal) => ~b.niche}

NoBundle == [key |-> "", fresh |-> NoSignal, size |-> NoSignal, niche |-> FALSE]

\* RiskScorer.calculate_weighted_score: (score, signals_triggered)
CalculateWeightedScore(w, b) ==
    LET f == IF b.fresh # NoSignal THEN b.fresh * w.fresh_wallet ELSE 0
        z == IF b.size # NoSignal THEN b.size * w.size_anomaly ELSE 0
        n == IF b.size # NoSignal /\ b.niche THEN b.size * w.niche_market ELSE 0
        triggered == (IF b.fresh # NoSignal THEN 1 ELSE 0)
                     + (IF b.size # NoSignal THEN 1 ELSE 0)
        raw == f + z + n
        bonus == IF triggered >= 3 THEN (raw * 13) \div 10
                 ELSE IF triggered >= 2 THEN (raw * 12) \div 10
                 ELSE raw
    IN  [score |-> Min(bonus, ScoreCap), signals_triggered |-> triggered]

\* A Redis key with a TTL is there until its expiry time.
KeyLive(d, k, t) == d[k] # NoTime /\ t < d[k]

\* A SET without NX: it overwrites a key that is still there.
RedisSetOverwrite(d, k, t) ==
    [was_set |-> TRUE, store |-> [d EXCEPT ![k] = t + DedupWindow]]

\* redis.set(key, value, nx=True, ex=dedup_window) at time t: the reply and
\* the store after it
RedisSetNxEx(d, k, t) ==
    IF KeyLive(d, k, t)
    THEN [was_set |-> FALSE, store |-> d]
    ELSE [was_set |-> TRUE, store |-> [d EXCEPT ![k] = t + DedupWindow]]

\* RiskAssessment
RiskAssessment(b, sc, alert) ==
    [key |-> b.key, signals_triggered |-> sc.signals_triggered,
     weighted_score |-> sc.score, should_alert |-> alert]

NoAssessment ==
    [key |-> "", signals_triggered |-> 0, weighted_score |-> 0, should_alert |-> FALSE]

NoScore == [score |-> 0, signals_triggered |-> 0]

\* What the history keeps of an assessment that met the threshold: its key,
\* its instant, its outcome, whether a dedup entry was there, and how many
\* clear_dedup calls had deleted its key before.
LogEntry(b, alert, t, hadEntry, epoch) ==
    [key |-> b.key, should_alert |-> alert, at |-> t,
     had_entry |-> hadEntry, epoch |-> epoch]

ScorerInit ==
    /\ weights \in WeightChoices
    /\ dedup = [k \in DedupKeys |-> NoTime]
    /\ apc = [a \in Assessors |-> "idle"]
    /\ abundle = [a \in Assessors |-> NoBundle]
    /\ ascore = [a \in Assessors |-> NoScore]
    /\ lastAssessment = NoAssessment
    /\ dedupLog = <<>>
    /\ clears = [k \in DedupKeys |-> 0]
    /\ lastHadEntry = FALSE
    /\ weightSets = 0

ScorerQuiet ==
    /\ weights = DefaultWeights
    /\ dedup = [k \in DedupKeys |-> NoTime]
    /\ apc = [a \in Assessors |-> "idle"]
    /\ abundle = [a \in Assessors |-> NoBundle]
    /\ ascore = [a \in Assessors |-> NoScore]
    /\ lastAssessment = NoAssessment
    /\ dedupLog = <<>>
    /\ clears = [k \in DedupKeys |-> 0]
    /\ lastHadEntry = FALSE
    /\ weightSets = 0

\* Assessments that met the threshold: those returned and those awaiting Redis.
Started == Len(dedupLog) + Cardinality({a \in Assessors : apc[a] = "dedup"})

\* assess() with a strict comparison against the threshold
AssessBeginStrict(a, b) ==
    /\ apc[a] = "idle"
    /\ \A a2 \in Assessors : a2 < a => apc[a2] # "idle"
    /\ LET sc == CalculateWeightedScore(weights, b)
           meets_threshold == sc.score > AlertThreshold
       IN  IF meets_threshold
           THEN /\ Started < MaxAssessments
                /\ apc' = [apc EXCEPT ![a] = "dedup"]
                /\ abundle' = [abundle EXCEPT ![a] = b]
                /\ ascore' = [ascore EXCEPT ![a] = sc]
                /\ UNCHANGED <<lastAssessment, lastHadEntry>>
           ELSE /\ lastAssessment' = RiskAssessment(b, sc, FALSE)
                /\ lastHadEntry' = KeyLive(dedup, b.key, now)
                /\ UNCHANGED <<apc, abundle, ascore>>
    /\ UNCHANGED <<now, weights, dedup, dedupLog, clears, weightSets>>
    /\ UNCHANGED scorerOthers

\* assess() up to its await: the score, and below the threshold the
\* RiskAssessment right away (no dedup check is made). The calls are
\* interchangeable: a new one takes the lowest free slot.
AssessBegin(a, b) ==
    /\ apc[a] = "idle"
    /\ \A a2 \in Assessors : a2 < a => apc[a2] # "idle"
    /\ LET sc == CalculateWeightedScore(weights, b)
           meets_threshold == sc.score >= AlertThreshold
       IN  IF meets_threshold
           THEN /\ Started < MaxAssessments
                /\ apc' = [apc EXCEPT ![a] = "dedup"]
                /\ abundle' = [abundle EXCEPT ![a] = b]
                /\ ascore' = [ascore EXCEPT ![a] = sc]
                /\ UNCHANGED <<lastAssessment, lastHadEntry>>
           ELSE /\ lastAssessment' = RiskAssessment(b, sc, FALSE)
                /\ lastHadEntry' = KeyLive(dedup, b.key, now)
                /\ UNCHANGED <<apc, abundle, ascore>>
    /\ UNCHANGED <<now, weights, dedup, dedupLog, clears, weightSets>>
    /\ UNCHANGED scorerOthers

\* _check_and_set_dedup: the SET NX EX reaches Redis, assess() returns.
AssessDedup(a) ==
    /\ apc[a] = "dedup"
    /\ LET b == abundle[a]
           sc == ascore[a]
           r == RedisSetNxEx(dedup, b.key, now)
           is_duplicate == ~r.was_set
       IN  /\ dedup' = r.store
           /\ lastAssessment' = RiskAssessment(b, sc, ~is_duplicate)
           /\ lastHadEntry' = KeyLive(dedup, b.key, now)
           /\ dedupLog' =
                 Append(dedupLog,
                        LogEntry(b, ~is_duplicate, now,
                                 KeyLive(dedup, b.key, now), clears[b.key]))
    /\ apc' = [apc EXCEPT ![a] = "idle"]
    /\ abundle' = [abundle EXCEPT ![a] = NoBundle]
    /\ ascore' = [ascore EXCEPT ![a] = NoScore]
    /\ UNCHANGED <<now, weights, clears, weightSets>>
    /\ UNCHANGED scorerOthers

\* RiskScorer.clear_dedup on a key that is there
ClearDedup(k) ==
    /\ KeyLive(dedup, k, now)
    /\ clears["w1:m1"] + clears["w2:m1"] < MaxClears
    /\ dedup' = [dedup EXCEPT ![k] = NoTime]
    /\ clears' = [clears EXCEPT ![k] = @ + 1]
    /\ UNCHANGED <<now, weights, apc, abundle, ascore, lastAssessment, dedupLog,
                   lastHadEntry, weightSets>>
    /\ UNCHANGED scorerOthers

\* time passes; Redis drops the keys whose TTL has run out
ScorerTick ==
    /\ now < ScorerMaxTime
    /\ now' = now + 1
    /\ dedup' = [k \in DedupKeys |->
                   IF KeyLive(dedup, k, now + 1) THEN dedup[k] ELSE NoTime]
    /\ UNCHANGED <<weights, apc, abundle, ascore, lastAssessment, dedupLog, clears,
                   lastHadEntry, weightSets>>
    /\ UNCHANGED scorerOthers

\* RiskScorer.set_weights: any dictionary is installed as it is
SetWeights(w) ==
    /\ weightSets < MaxSetWeights
    /\ weights' = w
    /\ weightSets' = weightSets + 1
    /\ UNCHANGED <<now, dedup, apc, abundle, ascore, lastAssessment, dedupLog, clears,
                   lastHadEntry>>
    /\ UNCHANGED scorerOthers

ScorerNext ==
    \/ \E a \in Assessors, b \in Bundles : AssessBegin(a, b)
    \/ \E w \in WeightChoices : SetWeights(w)
    \/ \E a \in Assessors : AssessDedup(a)
    \/ \E k \in DedupKeys : ClearDedup(k)
    \/ ScorerTick

(***************************************************************************)
(* alerter/channels/discord.py and telegram.py                             *)
(*                                                                         *)
(* The two adapters share the limiter and the retry loop line by line;     *)
(* they differ in what counts as success (204, or JSON ok). One adapter    *)
(* instance is modelled. Time is in units of 20 s.                         *)
(***************************************************************************)

\* The limiter's window: 60 s, three time units
RateWindow == 3

\* rate_limit_per_minute, max_retries, retry_delay (in time units) and the
\* server's retry_after (in time units) of the modelled adapter
RateLimit == 1
MaxRetries == 2
RetryDelay == 1
RetryAfter == 1

\* send() calls of a run, and the last instant of the clock
NumSenders == 3
RateMaxTime == 4

Senders == 1..NumSenders

RECURSIVE Pow2(_)
Pow2(n) == IF n = 0 THEN 1 ELSE 2 * Pow2(n - 1)

\* [t for t in self._request_times if now - t < 60]
Prune(times, t) == SelectSeq(times, LAMBDA x : t - x < RateWindow)

\* 60 - (now - self._request_times[0])
WaitTime(times, t) == RateWindow - (t - times[1])

\* self.retry_delay * (2**attempt)
BackoffDelay(attempt) == RetryDelay * Pow2(attempt)

RateInit ==
    /\ request_times = <<>>
    /\ rlLock = 0
    /\ rlQueue = <<>>
    /\ rpc = [s \in Senders |-> "idle"]
    /\ rlNow = [s \in Senders |-> NoTime]
    /\ rwake = [s \in Senders |-> NoTime]
    /\ rattempt = [s \in Senders |-> 0]
    /\ httpLog = <<>>

RateQuiet == RateInit

\* client.post: one HTTP request leaves the adapter
Post(s, k) == Append(httpLog, [at |-> now, attempt |-> k, call |-> s])

\* send() is called: "async with self._lock" takes the lock if it is free
\* and nobody waits, else the call queues up behind the others.
SendCall(s) ==
    /\ rpc[s] = "idle"
    /\ IF rlLock = 0 /\ rlQueue = <<>>
       THEN /\ rlLock' = s
            /\ rpc' = [rpc EXCEPT ![s] = "limiter"]
            /\ UNCHANGED rlQueue
       ELSE /\ rlQueue' = Append(rlQueue, s)
            /\ rpc' = [rpc EXCEPT ![s] = "queued"]
            /\ UNCHANGED rlLock
    /\ UNCHANGED <<now, request_times, rlNow, rwake, rattempt, httpLog>>
    /\ UNCHANGED rateOthers

\* _lock is released: it passes to the first waiter.
Release(q) == IF q = <<>> THEN 0 ELSE Head(q)
Woken(pcs, q) == IF q = <<>> THEN pcs ELSE [pcs EXCEPT ![Head(q)] = "limiter"]
Dequeue(q) == IF q = <<>> THEN q ELSE Tail(q)

\* _wait_for_rate_limit under the lock: prune, then either sleep until the
\* oldest recorded instant is a window old, or record "now", release the lock
\* and go on to the first POST.
LimiterEnter(s) ==
    /\ rpc[s] = "limiter"
    /\ LET pruned == Prune(request_times, now)
       IN  IF Len(pruned) >= RateLimit /\ WaitTime(pruned, now) > 0
           THEN /\ request_times' = pruned
                /\ rlNow' = [rlNow EXCEPT ![s] = now]
                /\ rwake' = [rwake EXCEPT ![s] = now + WaitTime(pruned, now)]
                /\ rpc' = [rpc EXCEPT ![s] = "limiter_sleep"]
                /\ UNCHANGED <<rlLock, rlQueue, rattempt, httpLog>>
           ELSE /\ request_times' = Append(pruned, now)
                /\ rlLock' = Release(rlQueue)
                /\ rlQueue' = Dequeue(rlQueue)
                /\ rattempt' = [rattempt EXCEPT ![s] = 0]
                /\ httpLog' = Post(s, 0)
                /\ rpc' = [Woken(rpc, rlQueue) EXCEPT ![s] = "posted"]
                /\ UNCHANGED <<rlNow, rwake>>
    /\ UNCHANGED now
    /\ UNCHANGED rateOthers

\* the limiter's sleep is over: record the "now" taken before the sleep,
\* release the lock and go on to the first POST.
LimiterWake(s) ==
    /\ rpc[s] = "limiter_sleep"
    /\ now >= rwake[s]
    /\ request_times' = Append(request_times, rlNow[s])
    /\ rlLock' = Release(rlQueue)
    /\ rlQueue' = Dequeue(rlQueue)
    /\ rattempt' = [rattempt EXCEPT ![s] = 0]
    /\ httpLog' = Post(s, 0)
    /\ rpc' = [Woken(rpc, rlQueue) EXCEPT ![s] = "posted"]
    /\ rlNow' = [rlNow EXCEPT ![s] = NoTime]
    /\ rwake' = [rwake EXCEPT ![s] = NoTime]
    /\ UNCHANGED now
    /\ UNCHANGED rateOthers

\* the success status comes back: send() returns True
ResponseOk(s) ==
    /\ rpc[s] = "posted"
    /\ rpc' = [rpc EXCEPT ![s] = "returned_true"]
    /\ UNCHANGED <<now, request_times, rlLock, rlQueue, rlNow, rwake, rattempt, httpLog>>
    /\ UNCHANGED rateOthers

\* 429 comes back: sleep retry_after, then "continue" (no backoff)
Response429(s) ==
    /\ rpc[s] = "posted"
    /\ rpc' = [rpc EXCEPT ![s] = "retry_sleep"]
    /\ rwake' = [rwake EXCEPT ![s] = now + RetryAfter]
    /\ UNCHANGED <<now, request_times, rlLock, rlQueue, rlNow, rattempt, httpLog>>
    /\ UNCHANGED rateOthers

\* another status, a timeout or an HTTP error: back off before the next
\* attempt, if there is one
ResponseError(s) ==
    /\ rpc[s] = "posted"
    /\ rpc' = [rpc EXCEPT ![s] = "retry_sleep"]
    /\ rwake' = [rwake EXCEPT
                   ![s] = IF rattempt[s] < MaxRetries - 1
                          THEN now + BackoffDelay(rattempt[s]) ELSE now]
    /\ UNCHANGED <<now, request_times, rlLock, rlQueue, rlNow, rattempt, httpLog>>
    /\ UNCHANGED rateOthers

\* the retry loop goes round: the next POST, or False after max_retries
NextAttempt(s) ==
    /\ rpc[s] = "retry_sleep"
    /\ now >= rwake[s]
    /\ rwake' = [rwake EXCEPT ![s] = NoTime]
    /\ IF rattempt[s] + 1 < MaxRetries
       THEN /\ rattempt' = [rattempt EXCEPT ![s] = @ + 1]
            /\ httpLog' = Post(s, rattempt[s] + 1)
            /\ rpc' = [rpc EXCEPT ![s] = "posted"]
       ELSE /\ rpc' = [rpc EXCEPT ![s] = "returned_false"]
            /\ UNCHANGED <<rattempt, httpLog>>
    /\ UNCHANGED <<now, request_times, rlLock, rlQueue, rlNow>>
    /\ UNCHANGED rateOthers

\* time passes, once every coroutine that can run has run: nobody holds the
\* lock without sleeping, and no sleep is over.
RateTick ==
    /\ now < RateMaxTime
    /\ \A s \in Senders :
         /\ rpc[s] # "limiter"
         /\ rpc[s] \in {"limiter_sleep", "retry_sleep"} => now < rwake[s]
    /\ now' = now + 1
    /\ UNCHANGED rateVars
    /\ UNCHANGED rateOthers

RateNext ==
    \/ \E s \in Senders : SendCall(s)
    \/ \E s \in Senders : LimiterEnter(s)
    \/ \E s \in Senders : LimiterWake(s)
    \/ \E s \in Senders : ResponseOk(s)
    \/ \E s \in Senders : Response429(s)
    \/ \E s \in Senders : ResponseError(s)
    \/ \E s \in Senders : NextAttempt(s)
    \/ RateTick

(***************************************************************************)
(* ingestor/publisher.py                                                   *)
(*                                                                         *)
(* One stream and one consumer group. Redis is modelled by what its        *)
(* commands do at the call sites: XADD appends an entry, XREADGROUP ">"    *)
(* delivers the entries after the group's last-delivered id and enters     *)
(* them in the pending entries list (PEL) under the reading consumer,      *)
(* XREADGROUP "0" returns the reading consumer's own pending entries, and  *)
(* XACK removes entries from the PEL. The callers of read_events,          *)
(* read_pending and ack are the consumers; a consumer acknowledges the     *)
(* ids of the StreamEntry objects it was handed.                           *)
(***************************************************************************)

\* The consumers of the group
Consumers == {"c1", "c2"}

\* Entries added in a run (fewer than max_len: nothing is trimmed), the
\* count of a read, the last instant of the clock, and the value at which
\* the PEL's delivery counter saturates.
MaxEntries == 2
ReadCount == 2
StreamMaxTime == 2
MaxDeliveries == 2

EntryIds == 1..MaxEntries

\* What an entry holds: the fields _serialize_trade_event writes, or fields
\* that _deserialize_trade_event rejects (int() or Decimal() raises).
Payloads == {"trade", "malformed"}

\* _deserialize_trade_event returns a TradeEvent (it does not raise)
Decodes(payload) == payload = "trade"

\* A PEL slot: the owning consumer, the last delivery time, the delivery count
NoPending == [owner |-> "", at |-> NoTime, count |-> 0]

Pending(p, e) == p[e].owner # ""

\* self._redis.xadd(stream, data, maxlen=...)
XAdd(st, payload) == Append(st, payload)

\* self._redis.xreadgroup(group, consumer, {stream: ">"}, count=count) at
\* time t: the ids delivered, and the group after it
XReadGroupNew(st, ld, p, c, count, t) ==
    LET ids == {e \in 1..Len(st) : e > ld /\ e <= ld + count}
    IN  [ids |-> ids,
         last_delivered |-> Min(Len(st), ld + count),
         pel |-> [e \in EntryIds |->
                    IF e \in ids THEN [owner |-> c, at |-> t, count |-> 1]
                    ELSE p[e]]]

\* self._redis.xreadgroup(group, consumer, {stream: "0"}, count=count) at
\* time t: the first ids of the consumer's own pending entries, whose
\* delivery time and count Redis refreshes
XReadGroupPending(p, c, count, t) ==
    LET own == {e \in EntryIds : p[e].owner = c}
        ids == {e \in own : Cardinality({f \in own : f < e}) < count}
    IN  [ids |-> ids,
         pel |-> [e \in EntryIds |->
                    IF e \in ids
                    THEN [owner |-> c, at |-> t,
                          count |-> Min(p[e].count + 1, MaxDeliveries)]
                    ELSE p[e]]]

\* An XACK that counts the ids but leaves them pending.
XAckKeep(p, ids) ==
    [acked |-> {e \in ids : Pending(p, e)}, pel |-> p]

\* self._redis.xack(stream, group, *entry_ids): the ids it acknowledged (its
\* reply is their number) and the PEL after it
XAck(p, ids) ==
    [acked |-> {e \in ids : Pending(p, e)},
     pel |-> [e \in EntryIds |-> IF e \in ids THEN NoPending ELSE p[e]]]

\* The StreamEntry list a read builds: an entry whose data does not decode
\* is logged and left out.
Entries(st, ids) == {e \in ids : Decodes(st[e])}

\* A read call: who called what, the ids of the StreamEntry objects it
\* returned, and the ids that were acknowledged before it.
ReadRecord(c, call, ids, acked) ==
    [consumer |-> c, call |-> call, ids |-> ids, acked_before |-> acked]

NoRead == ReadRecord("", "", {}, {})

StreamInit ==
    /\ stream = <<>>
    /\ last_delivered = 0
    /\ pel = [e \in EntryIds |-> NoPending]
    /\ held = [c \in Consumers |-> {}]
    /\ crashed = [c \in Consumers |-> FALSE]
    /\ ackedIds = {}
    /\ lastRead = NoRead

StreamQuiet == StreamInit

\* EventPublisher.publish
Publish ==
    /\ Len(stream) < MaxEntries
    /\ stream' = XAdd(stream, "trade")
    /\ UNCHANGED <<now, last_delivered, pel, held, crashed, ackedIds, lastRead>>
    /\ UNCHANGED streamOthers

\* Another writer adds an entry that does not decode.
ForeignAdd ==
    /\ Len(stream) < MaxEntries
    /\ stream' = XAdd(stream, "malformed")
    /\ UNCHANGED <<now, last_delivered, pel, held, crashed, ackedIds, lastRead>>
    /\ UNCHANGED streamOthers

\* EventPublisher.read_events by consumer c (an empty reply once block_ms
\* is over with nothing new)
ReadEvents(c) ==
    /\ ~crashed[c]
    /\ LET r == XReadGroupNew(stream, last_delivered, pel, c, ReadCount, now)
           entries == Entries(stream, r.ids)
       IN  /\ last_delivered' = r.last_delivered
           /\ pel' = r.pel
           /\ held' = [held EXCEPT ![c] = @ \cup entries]
           /\ lastRead' = ReadRecord(c, "read_events", entries, ackedIds)
    /\ UNCHANGED <<now, stream, crashed, ackedIds>>
    /\ UNCHANGED streamOthers

\* EventPublisher.read_pending by consumer c
ReadPending(c) ==
    /\ ~crashed[c]
    /\ LET r == XReadGroupPending(pel, c, ReadCount, now)
           entries == Entries(stream, r.ids)
       IN  /\ pel' = r.pel
           /\ held' = [held EXCEPT ![c] = @ \cup entries]
           /\ lastRead' = ReadRecord(c, "read_pending", entries, ackedIds)
    /\ UNCHANGED <<now, stream, last_delivered, crashed, ackedIds>>
    /\ UNCHANGED streamOthers

\* EventPublisher.ack(group, entry_id) by consumer c for an entry it holds
Ack(c, e) ==
    /\ ~crashed[c]
    /\ e \in held[c]
    /\ LET r == XAck(pel, {e})
       IN  /\ pel' = r.pel
           /\ ackedIds' = ackedIds \cup r.acked
    /\ held' = [held EXCEPT ![c] = @ \ {e}]
    /\ UNCHANGED <<now, stream, last_delivered, crashed, lastRead>>
    /\ UNCHANGED streamOthers

\* Consumer c's process dies: what it held in memory is gone.
ConsumerCrash(c) ==
    /\ ~crashed[c]
    /\ crashed' = [crashed EXCEPT ![c] = TRUE]
    /\ held' = [held EXCEPT ![c] = {}]
    /\ UNCHANGED <<now, stream, last_delivered, pel, ackedIds, lastRead>>
    /\ UNCHANGED streamOthers

\* Consumer c's process is started again under the same consumer name.
ConsumerRestart(c) ==
    /\ crashed[c]
    /\ crashed' = [crashed EXCEPT ![c] = FALSE]
    /\ UNCHANGED <<now, stream, last_delivered, pel, held, ackedIds, lastRead>>
    /\ UNCHANGED streamOthers

\* time passes
StreamTick ==
    /\ now < StreamMaxTime
    /\ now' = now + 1
    /\ UNCHANGED streamVars
    /\ UNCHANGED streamOthers

StreamNext ==
    \/ Publish
    \/ ForeignAdd
    \/ \E c \in Consumers : ReadEvents(c)
    \/ \E c \in Consumers : ReadPending(c)
    \/ \E c \in Consumers, e \in EntryIds : Ack(c, e)
    \/ \E c \in Consumers : ConsumerCrash(c)
    \/ \E c \in Consumers : ConsumerRestart(c)
    \/ StreamTick

(***************************************************************************)
(* ingestor/websocket.py                                                   *)
(*                                                                         *)
(* One TradeStreamHandler with on_state_change = None, so _set_state does  *)
(* not suspend. A step is what a coroutine does between two awaits. The    *)
(* caller runs one start() call at a time: it calls start() again only     *)
(* once the earlier call has returned or raised. stop() may be called at   *)
(* any moment. In _listen, the "async for" over the socket ends normally   *)
(* when the socket was closed cleanly (by the server or by ws.close()) and *)
(* raises ConnectionClosed when the connection broke.                      *)
(***************************************************************************)

\* ConnectionState
ConnectionStates == {"DISCONNECTED", "CONNECTING", "CONNECTED", "RECONNECTING"}

\* initial_reconnect_delay (DEFAULT_INITIAL_RECONNECT_DELAY)
InitialReconnectDelay == 1

\* max_reconnect_delay (default 30), scaled down, and the connections the
\* server accepts in a run
MaxReconnectDelay == 4
MaxConns == 2

SocketIds == 1..MaxConns

\* The state and the changes made so far in the step being taken
Here(st) == [state |-> st, edges |-> {}]

\* A _set_state without the "if self._state != new_state" guard.
SetStateAlways(h, new_state) ==
    [state |-> new_state, edges |-> h.edges \cup {<<h.state, new_state>>}]

\* TradeStreamHandler._set_state
SetState(h, new_state) ==
    IF h.state # new_state
    THEN [state |-> new_state, edges |-> h.edges \cup {<<h.state, new_state>>}]
    ELSE h

\* ws.close(): an open socket is closed cleanly
CloseSock(socks, w) ==
    IF socks[w] = "open" THEN [socks EXCEPT ![w] = "closed_ok"] ELSE socks

HasFree(socks) == \E n \in SocketIds : socks[n] = "none"

\* websockets.connect returns a new connection
NewSock(socks) ==
    CHOOSE n \in SocketIds :
        socks[n] = "none" /\ \A m \in SocketIds : m < n => socks[m] # "none"

WsInit ==
    /\ wsState = "DISCONNECTED"
    /\ running = FALSE
    /\ ws = 0
    /\ sockets = [n \in SocketIds |-> "none"]
    /\ listenSock = 0
    /\ startPc = "idle"
    /\ stopPc = "idle"
    /\ delay = InitialReconnectDelay
    /\ stopReturned = FALSE
    /\ startRaised = FALSE
    /\ lastEdges = {}

WsQuiet == WsInit

\* _cleanup as run by start()'s "finally", from the state and changes h of
\* the step so far, with self._ws = w: up to "await self._ws.close()", or to
\* its end when self._ws is None
StartCleanup(h, w, socks) ==
    IF w # 0
    THEN /\ sockets' = CloseSock(socks, w)
         /\ ws' = w
         /\ wsState' = h.state
         /\ lastEdges' = h.edges
         /\ startPc' = "closing"
    ELSE LET h2 == SetState(h, "DISCONNECTED")
         IN  /\ sockets' = socks
             /\ ws' = w
             /\ wsState' = h2.state
             /\ lastEdges' = h2.edges
             /\ startPc' = "idle"

\* start() up to "await websockets.connect" of the initial _connect
Start ==
    /\ startPc = "idle"
    /\ IF running
       THEN /\ lastEdges' = {}
            /\ UNCHANGED <<wsState, running, startPc>>
       ELSE LET h == SetState(Here(wsState), "CONNECTING")
            IN  /\ running' = TRUE
                /\ wsState' = h.state
                /\ lastEdges' = h.edges
                /\ startPc' = "connect_init"
    /\ UNCHANGED <<ws, sockets, listenSock, stopPc, delay>>
    /\ stopReturned' = FALSE
    /\ startRaised' = (running /\ startRaised)
    /\ UNCHANGED wsOthers

\* the initial _connect succeeds (connected and subscribed): the main loop
\* starts listening, or, stop() having been called meanwhile, is skipped
ConnectInitOk ==
    /\ startPc = "connect_init"
    /\ HasFree(sockets)
    /\ LET n == NewSock(sockets)
           socks == [sockets EXCEPT ![n] = "open"]
           h == SetState(Here(wsState), "CONNECTED")
       IN  IF running
           THEN /\ ws' = n
                /\ sockets' = socks
                /\ listenSock' = n
                /\ wsState' = h.state
                /\ lastEdges' = h.edges
                /\ startPc' = "listen"
           ELSE /\ StartCleanup(h, n, socks)
                /\ UNCHANGED listenSock
    /\ UNCHANGED <<running, stopPc, delay>>
    /\ UNCHANGED <<stopReturned, startRaised>>
    /\ UNCHANGED wsOthers

\* the initial _connect raises ConnectionError: "finally" runs _cleanup and
\* start() raises
ConnectInitFails ==
    /\ startPc = "connect_init"
    /\ StartCleanup(Here(wsState), ws, sockets)
    /\ UNCHANGED <<running, listenSock, stopPc, delay>>
    /\ UNCHANGED stopReturned
    /\ startRaised' = TRUE
    /\ UNCHANGED wsOthers

\* _listen raises (the connection broke, or self._ws was None): when
\* running, DISCONNECTED, then _reconnect_loop up to its sleep
ListenRaises ==
    /\ startPc = "listen"
    /\ IF listenSock = 0 THEN TRUE ELSE sockets[listenSock] = "closed_error"
    /\ IF running
       THEN LET h == SetState(SetState(Here(wsState), "DISCONNECTED"),
                              "RECONNECTING")
            IN  /\ wsState' = h.state
                /\ lastEdges' = h.edges
                /\ delay' = InitialReconnectDelay
                /\ startPc' = "sleep"
                /\ UNCHANGED <<ws, sockets>>
       ELSE /\ StartCleanup(Here(wsState), ws, sockets)
            /\ UNCHANGED delay
    /\ listenSock' = 0
    /\ UNCHANGED <<running, stopPc>>
    /\ UNCHANGED <<stopReturned, startRaised>>
    /\ UNCHANGED wsOthers

\* _listen returns normally (the socket was closed cleanly): the main loop
\* calls _listen(self._ws) again while running, else it ends
ListenEndsClean ==
    /\ startPc = "listen"
    /\ listenSock # 0
    /\ sockets[listenSock] = "closed_ok"
    /\ IF running
       THEN /\ listenSock' = ws
            /\ lastEdges' = {}
            /\ UNCHANGED <<wsState, ws, sockets, startPc>>
       ELSE /\ StartCleanup(Here(wsState), ws, sockets)
            /\ listenSock' = 0
    /\ UNCHANGED <<running, stopPc, delay>>
    /\ UNCHANGED <<stopReturned, startRaised>>
    /\ UNCHANGED wsOthers

\* _reconnect_loop's sleep is over: leave if stop() was called, else _connect
\* up to "await websockets.connect"
SleepOver ==
    /\ startPc = "sleep"
    /\ IF running
       THEN LET h == SetState(Here(wsState), "CONNECTING")
            IN  /\ wsState' = h.state
                /\ lastEdges' = h.edges
                /\ startPc' = "connect_re"
                /\ UNCHANGED <<ws, sockets>>
       ELSE StartCleanup(Here(wsState), ws, sockets)
    /\ UNCHANGED <<running, listenSock, stopPc, delay>>
    /\ UNCHANGED <<stopReturned, startRaised>>
    /\ UNCHANGED wsOthers

\* _reconnect_loop's _connect succeeds: the delay is reset and the main loop
\* listens again, or ends if stop() was called meanwhile
ConnectReOk ==
    /\ startPc = "connect_re"
    /\ HasFree(sockets)
    /\ LET n == NewSock(sockets)
           socks == [sockets EXCEPT ![n] = "open"]
           h == SetState(Here(wsState), "CONNECTED")
       IN  IF running
           THEN /\ ws' = n
                /\ sockets' = socks
                /\ listenSock' = n
                /\ wsState' = h.state
                /\ lastEdges' = h.edges
                /\ startPc' = "listen"
           ELSE /\ StartCleanup(h, n, socks)
                /\ UNCHANGED listenSock
    /\ delay' = InitialReconnectDelay
    /\ UNCHANGED <<running, stopPc>>
    /\ UNCHANGED <<stopReturned, startRaised>>
    /\ UNCHANGED wsOthers

\* _reconnect_loop's _connect raises: the delay doubles up to the maximum
\* and the loop goes round while running
ConnectReFails ==
    /\ startPc = "connect_re"
    /\ delay' = Min(delay * 2, MaxReconnectDelay)
    /\ IF running
       THEN LET h == SetState(Here(wsState), "RECONNECTING")
            IN  /\ wsState' = h.state
                /\ lastEdges' = h.edges
                /\ startPc' = "sleep"
                /\ UNCHANGED <<ws, sockets>>
       ELSE StartCleanup(Here(wsState), ws, sockets)
    /\ UNCHANGED <<running, listenSock, stopPc>>
    /\ UNCHANGED <<stopReturned, startRaised>>
    /\ UNCHANGED wsOthers

\* start()'s _cleanup after "await self._ws.close()"; start() is over
StartCleanupDone ==
    /\ startPc = "closing"
    /\ LET h == SetState(Here(wsState), "DISCONNECTED")
       IN  /\ wsState' = h.state
           /\ lastEdges' = h.edges
    /\ ws' = 0
    /\ startPc' = "idle"
    /\ UNCHANGED <<running, sockets, listenSock, stopPc, delay>>
    /\ UNCHANGED <<stopReturned, startRaised>>
    /\ UNCHANGED wsOthers

\* stop() up to "await self._ws.close()" of _cleanup, or to its end
Stop ==
    /\ stopPc = "idle"
    /\ IF ~running
       THEN /\ lastEdges' = {}
            /\ UNCHANGED <<wsState, running, sockets, stopPc>>
       ELSE /\ running' = FALSE
            /\ IF ws # 0
               THEN /\ sockets' = CloseSock(sockets, ws)
                    /\ stopPc' = "closing"
                    /\ lastEdges' = {}
                    /\ UNCHANGED wsState
               ELSE LET h == SetState(Here(wsState), "DISCONNECTED")
                    IN  /\ wsState' = h.state
                        /\ lastEdges' = h.edges
                        /\ UNCHANGED <<sockets, stopPc>>
    /\ UNCHANGED <<ws, listenSock, startPc, delay>>
    /\ stopReturned' = (stopPc' = "idle")
    /\ UNCHANGED startRaised
    /\ UNCHANGED wsOthers

\* stop()'s _cleanup after "await self._ws.close()"; stop() returns
StopCleanupDone ==
    /\ stopPc = "closing"
    /\ LET h == SetState(Here(wsState), "DISCONNECTED")
       IN  /\ wsState' = h.state
           /\ lastEdges' = h.edges
    /\ ws' = 0
    /\ stopPc' = "idle"
    /\ UNCHANGED <<running, sockets, listenSock, startPc, delay>>
    /\ stopReturned' = ~running
    /\ UNCHANGED startRaised
    /\ UNCHANGED wsOthers

\* the server closes connection n cleanly (close code 1000 or 1001)
ServerClose(n) ==
    /\ sockets[n] = "open"
    /\ sockets' = [sockets EXCEPT ![n] = "closed_ok"]
    /\ lastEdges' = {}
    /\ UNCHANGED <<wsState, running, ws, listenSock, startPc, stopPc, delay>>
    /\ UNCHANGED <<stopReturned, startRaised>>
    /\ UNCHANGED wsOthers

\* connection n breaks (network error, ping timeout, abnormal close)
ConnectionBreaks(n) ==
    /\ sockets[n] = "open"
    /\ sockets' = [sockets EXCEPT ![n] = "closed_error"]
    /\ lastEdges' = {}
    /\ UNCHANGED <<wsState, running, ws, listenSock, startPc, stopPc, delay>>
    /\ UNCHANGED <<stopReturned, startRaised>>
    /\ UNCHANGED wsOthers

\* The steps of the start() call that the event loop runs once their await
\* is over
StartSteps ==
    \/ ConnectInitOk
    \/ ConnectInitFails
    \/ ListenRaises
    \/ ListenEndsClean
    \/ SleepOver
    \/ ConnectReOk
    \/ ConnectReFails
    \/ StartCleanupDone

WsNext ==
    \/ Start
    \/ ConnectInitOk
    \/ ConnectInitFails
    \/ ListenRaises
    \/ ListenEndsClean
    \/ SleepOver
    \/ ConnectReOk
    \/ ConnectReFails
    \/ StartCleanupDone
    \/ Stop
    \/ StopCleanupDone
    \/ \E n \in SocketIds : ServerClose(n)
    \/ \E n \in SocketIds : ConnectionBreaks(n)

(***************************************************************************)
(* profiler/chain.py                                                       *)
(*                                                                         *)
(* One PolygonClient and the _execute_with_retry calls made on it, which   *)
(* may overlap (get_wallet_info and get_transaction_counts gather them).   *)
(* A step is what a call does between two awaits. An RPC request fails by  *)
(* raising Web3Exception. The recovery interval (60 s) is scaled to        *)
(* RecoveryInterval time units.                                            *)
(***************************************************************************)

\* max_requests_per_second (bucket capacity and refill per time unit),
\* max_retries and retry_delay_seconds of the modelled client
MaxRps == 1
ChainMaxRetries == 2
ChainRetryDelay == 1

\* _primary_recovery_interval, in time units
RecoveryInterval == 2

\* _execute_with_retry calls of a run, and the last instant of the clock
NumChainCalls == 2
ChainMaxTime == 4

ChainCalls == 1..NumChainCalls

\* RateLimiter._refill at time t: the tokens after it
Refill(tok, last, t) == Min(MaxRps, tok + (t - last) * MaxRps)

\* (tokens - self.tokens) / self.refill_rate for one token, in whole time
\* units (a sleep may last longer than asked)
AcquireWait(tok) == ((1 - tok) + MaxRps - 1) \div MaxRps

\* One RPC request: the endpoint, the instant, the call and its attempt, the
\* sleep that preceded it, and what the client held of the primary's health
RpcRequest(ep, t, c, k, slept, healthy, probe) ==
    [ep |-> ep, at |-> t, call |-> c, attempt |-> k, slept |-> slept,
     healthy |-> healthy, probe |-> probe]

\* A _should_try_primary that never takes its cooldown branch.
ShouldTryPrimaryNoProbe(healthy, last_check, t) ==
    [try |-> healthy, probe |-> FALSE, last_check |-> last_check]

\* PolygonClient._should_try_primary at time t: the answer, whether it is a
\* probe after the cooldown, and _last_primary_check after it
ShouldTryPrimary(healthy, last_check, t) ==
    IF healthy
    THEN [try |-> TRUE, probe |-> FALSE, last_check |-> last_check]
    ELSE IF t - last_check > RecoveryInterval
    THEN [try |-> TRUE, probe |-> TRUE, last_check |-> t]
    ELSE [try |-> FALSE, probe |-> FALSE, last_check |-> last_check]

ChainInit ==
    /\ hasFallback \in BOOLEAN
    /\ tokens = MaxRps
    /\ last_refill = 0
    /\ primary_healthy = TRUE
    /\ last_primary_check = 0
    /\ cpc = [c \in ChainCalls |-> "idle"]
    /\ cattempt = [c \in ChainCalls |-> 0]
    /\ cdelay = [c \in ChainCalls |-> ChainRetryDelay]
    /\ cwake = [c \in ChainCalls |-> NoTime]
    /\ cinfo = [c \in ChainCalls |-> [healthy |-> FALSE, probe |-> FALSE]]
    /\ rpcLog = <<>>
    /\ acquired = 0

ChainQuiet ==
    /\ hasFallback = FALSE
    /\ tokens = MaxRps
    /\ last_refill = 0
    /\ primary_healthy = TRUE
    /\ last_primary_check = 0
    /\ cpc = [c \in ChainCalls |-> "idle"]
    /\ cattempt = [c \in ChainCalls |-> 0]
    /\ cdelay = [c \in ChainCalls |-> ChainRetryDelay]
    /\ cwake = [c \in ChainCalls |-> NoTime]
    /\ cinfo = [c \in ChainCalls |-> [healthy |-> FALSE, probe |-> FALSE]]
    /\ rpcLog = <<>>
    /\ acquired = 0

\* A fallback part that goes on with the delay the primary part left.
TryFallbackKeepDelay(c, h) ==
    IF hasFallback
    THEN /\ cpc' = [cpc EXCEPT ![c] = "fallback"]
         /\ cattempt' = [cattempt EXCEPT ![c] = 0]
         /\ cdelay' = cdelay
         /\ rpcLog' = Append(rpcLog,
                             RpcRequest("fallback", now, c, 0, 0, h, FALSE))
    ELSE /\ cpc' = [cpc EXCEPT ![c] = "RPCError"]
         /\ UNCHANGED <<cattempt, cdelay, rpcLog>>

\* The fallback part of _execute_with_retry, entered by call c in a step in
\* which the primary's health is h: the first fallback request, or RPCError
\* when there is no fallback
TryFallback(c, h) ==
    IF hasFallback
    THEN /\ cpc' = [cpc EXCEPT ![c] = "fallback"]
         /\ cattempt' = [cattempt EXCEPT ![c] = 0]
         /\ cdelay' = [cdelay EXCEPT ![c] = ChainRetryDelay]
         /\ rpcLog' = Append(rpcLog,
                             RpcRequest("fallback", now, c, 0, 0, h, FALSE))
    ELSE /\ cpc' = [cpc EXCEPT ![c] = "RPCError"]
         /\ UNCHANGED <<cattempt, cdelay, rpcLog>>

\* rate_limiter.acquire by call c at the current time: a token is taken and
\* the call goes on to its first request, or the call sleeps
Acquire(c) ==
    LET tok == Refill(tokens, last_refill, now)
    IN  /\ last_refill' = now
        /\ IF tok >= 1
           THEN LET p == ShouldTryPrimary(primary_healthy, last_primary_check, now)
                IN  /\ tokens' = tok - 1
                    /\ acquired' = acquired + 1
                    /\ last_primary_check' = p.last_check
                    /\ cinfo' = [cinfo EXCEPT ![c] =
                                   [healthy |-> primary_healthy, probe |-> p.probe]]
                    /\ cwake' = [cwake EXCEPT ![c] = NoTime]
                    /\ IF p.try
                       THEN /\ cpc' = [cpc EXCEPT ![c] = "primary"]
                            /\ cattempt' = [cattempt EXCEPT ![c] = 0]
                            /\ cdelay' = [cdelay EXCEPT ![c] = ChainRetryDelay]
                            /\ rpcLog' = Append(rpcLog,
                                  RpcRequest("primary", now, c, 0, 0,
                                             primary_healthy, p.probe))
                       ELSE TryFallback(c, primary_healthy)
           ELSE /\ tokens' = tok
                /\ cpc' = [cpc EXCEPT ![c] = "acquire_sleep"]
                /\ cwake' = [cwake EXCEPT ![c] = now + AcquireWait(tok)]
                /\ UNCHANGED <<acquired, last_primary_check, cinfo, cattempt,
                               cdelay, rpcLog>>

\* _execute_with_retry is called (the calls are interchangeable: a new one
\* takes the lowest free slot)
ExecuteCall(c) ==
    /\ cpc[c] = "idle"
    /\ \A c2 \in ChainCalls : c2 < c => cpc[c2] # "idle"
    /\ Acquire(c)
    /\ UNCHANGED <<now, hasFallback, primary_healthy>>
    /\ UNCHANGED chainOthers

\* acquire's sleep is over: refill and look again
AcquireWake(c) ==
    /\ cpc[c] = "acquire_sleep"
    /\ now >= cwake[c]
    /\ Acquire(c)
    /\ UNCHANGED <<now, hasFallback, primary_healthy>>
    /\ UNCHANGED chainOthers

\* the primary answers: the primary is healthy, the call returns the result
PrimarySucceeds(c) ==
    /\ cpc[c] = "primary"
    /\ primary_healthy' = TRUE
    /\ cpc' = [cpc EXCEPT ![c] = "returned"]
    /\ UNCHANGED <<now, hasFallback, tokens, last_refill, last_primary_check,
                   cattempt, cdelay, cwake, cinfo, rpcLog, acquired>>
    /\ UNCHANGED chainOthers

\* the primary request raises Web3Exception: sleep before the next attempt,
\* or, after the last one, mark the primary unhealthy and go to the fallback
PrimaryFails(c) ==
    /\ cpc[c] = "primary"
    /\ IF cattempt[c] < ChainMaxRetries - 1
       THEN /\ cpc' = [cpc EXCEPT ![c] = "primary_sleep"]
            /\ cwake' = [cwake EXCEPT ![c] = now + cdelay[c]]
            /\ UNCHANGED <<primary_healthy, last_primary_check, cattempt,
                           cdelay, rpcLog>>
       ELSE /\ primary_healthy' = FALSE
            /\ last_primary_check' = now
            /\ TryFallback(c, FALSE)
            /\ UNCHANGED cwake
    /\ UNCHANGED <<now, hasFallback, tokens, last_refill, cinfo, acquired>>
    /\ UNCHANGED chainOthers

\* the backoff sleep is over: the delay doubles, the next primary request
PrimaryRetry(c) ==
    /\ cpc[c] = "primary_sleep"
    /\ now >= cwake[c]
    /\ cpc' = [cpc EXCEPT ![c] = "primary"]
    /\ cattempt' = [cattempt EXCEPT ![c] = @ + 1]
    /\ cdelay' = [cdelay EXCEPT ![c] = @ * 2]
    /\ cwake' = [cwake EXCEPT ![c] = NoTime]
    /\ rpcLog' = Append(rpcLog,
                        RpcRequest("primary", now, c, cattempt[c] + 1, cdelay[c],
                                   primary_healthy, cinfo[c].probe))
    /\ UNCHANGED <<now, hasFallback, tokens, last_refill, primary_healthy,
                   last_primary_check, cinfo, acquired>>
    /\ UNCHANGED chainOthers

\* the fallback answers: the call returns the result
FallbackSucceeds(c) ==
    /\ cpc[c] = "fallback"
    /\ cpc' = [cpc EXCEPT ![c] = "returned"]
    /\ UNCHANGED <<now, hasFallback, tokens, last_refill, primary_healthy,
                   last_primary_check, cattempt, cdelay, cwake, cinfo, rpcLog,
                   acquired>>
    /\ UNCHANGED chainOthers

\* the fallback request raises Web3Exception: sleep before the next
\* attempt, or RPCError after the last one
FallbackFails(c) ==
    /\ cpc[c] = "fallback"
    /\ IF cattempt[c] < ChainMaxRetries - 1
       THEN /\ cpc' = [cpc EXCEPT ![c] = "fallback_sleep"]
            /\ cwake' = [cwake EXCEPT ![c] = now + cdelay[c]]
       ELSE /\ cpc' = [cpc EXCEPT ![c] = "RPCError"]
            /\ UNCHANGED cwake
    /\ UNCHANGED <<now, hasFallback, tokens, last_refill, primary_healthy,
                   last_primary_check, cattempt, cdelay, cinfo, rpcLog, acquired>>
    /\ UNCHANGED chainOthers

\* the backoff sleep is over: the delay doubles, the next fallback request
FallbackRetry(c) ==
    /\ cpc[c] = "fallback_sleep"
    /\ now >= cwake[c]
    /\ cpc' = [cpc EXCEPT ![c] = "fallback"]
    /\ cattempt' = [cattempt EXCEPT ![c] = @ + 1]
    /\ cdelay' = [cdelay EXCEPT ![c] = @ * 2]
    /\ cwake' = [cwake EXCEPT ![c] = NoTime]
    /\ rpcLog' = Append(rpcLog,
                        RpcRequest("fallback", now, c, cattempt[c] + 1, cdelay[c],
                                   primary_healthy, FALSE))
    /\ UNCHANGED <<now, hasFallback, tokens, last_refill, primary_healthy,
                   last_primary_check, cinfo, acquired>>
    /\ UNCHANGED chainOthers

\* time passes
ChainTick ==
    /\ now < ChainMaxTime
    /\ now' = now + 1
    /\ UNCHANGED chainVars
    /\ UNCHANGED chainOthers

ChainNext ==
    \/ \E c \in ChainCalls : ExecuteCall(c)
    \/ \E c \in ChainCalls : AcquireWake(c)
    \/ \E c \in ChainCalls : PrimarySucceeds(c)
    \/ \E c \in ChainCalls : PrimaryFails(c)
    \/ \E c \in ChainCalls : PrimaryRetry(c)
    \/ \E c \in ChainCalls : FallbackSucceeds(c)
    \/ \E c \in ChainCalls : FallbackFails(c)
    \/ \E c \in ChainCalls : FallbackRetry(c)
    \/ ChainTick

(***************************************************************************)
(* ingestor/websocket.py (_handle_message) and ingestor/models.py          *)
(* (TradeEvent.from_websocket_message)                                     *)
(*                                                                         *)
(* Prices and sizes are Decimals, kept here in hundredths.                 *)
(***************************************************************************)

\* Frames the handler takes in a run.
MaxFrames == 2

\* The numbers a feed frame may carry as price or size, in hundredths
FeedNumbers == {-50, 0, 50, 100, 150}

\* What payload["price"] / payload["size"] may be in the decoded JSON: the
\* key is missing, null, a string that is no number, a JSON number, or a
\* string holding a number.
RawValues ==
    {[k |-> "missing", v |-> 0], [k |-> "null", v |-> 0], [k |-> "text", v |-> 0]}
    \cup [k : {"num"}, v : FeedNumbers]
    \cup [k : {"numstr"}, v : {50, 150}]

\* A frame off the socket: whether it is JSON at all, its topic and type,
\* and the payload's price and size.
Frames ==
    [json : BOOLEAN, topic : {"activity", "comments"}, type : {"trades", "orders"},
     price : RawValues, size : RawValues]

\* Decimal(str(data.get(key, 0))): the default 0 for a missing key, the
\* number for a number or a numeric string, InvalidOperation for "None"
\* and for any other text.
DecimalOfStr(raw) ==
    IF raw.k = "missing" THEN [ok |-> TRUE, value |-> 0]
    ELSE IF raw.k \in {"num", "numstr"} THEN [ok |-> TRUE, value |-> raw.v]
    ELSE [ok |-> FALSE, value |-> 0]

\* TradeEvent.from_websocket_message, as far as price and size go: the
\* TradeEvent, or the exception of the Decimal constructor.
FromWebsocketMessage(payload) ==
    LET p == DecimalOfStr(payload.price)
        z == DecimalOfStr(payload.size)
    IN  [raised |-> ~p.ok \/ ~z.ok,
         trade |-> [price |-> p.value, size |-> z.value]]

FeedInit ==
    /\ delivered = <<>>
    /\ trades_received = 0
    /\ framesHandled = 0

FeedQuiet == FeedInit

\* TradeStreamHandler._handle_message on one text frame: bad JSON and any
\* exception of the parser are logged and the frame is dropped; a frame of
\* another topic or type is logged; a trade is counted and handed to the
\* callback.
HandleMessage(f) ==
    /\ framesHandled < MaxFrames
    /\ framesHandled' = framesHandled + 1
    /\ IF f.json /\ f.topic = "activity" /\ f.type = "trades"
       THEN LET r == FromWebsocketMessage(f)
            IN  IF r.raised
                THEN UNCHANGED <<delivered, trades_received>>
                ELSE /\ trades_received' = trades_received + 1
                     /\ delivered' = Append(delivered, r.trade)
       ELSE UNCHANGED <<delivered, trades_received>>
    /\ UNCHANGED feedOthers

FeedNext ==
    \E f \in Frames : HandleMessage(f)

(***************************************************************************)
(* profiler/analyzer.py                                                    *)
(*                                                                         *)
(* Ages are in hundredths of an hour.                                      *)
(***************************************************************************)

\* fresh_threshold values the analyzer is constructed with (default 5)
ThresholdChoices == {2, 3}

\* The largest nonce a wallet of the runs has.
MaxNonce == 3

\* age_hours is None
NoAge == -1

\* 48 hours
AgeLimit == 4800

\* The ages a wallet of the runs has: unknown, 47.99 h, 48 h, 48.01 h
Ages == {NoAge, AgeLimit - 1, AgeLimit, AgeLimit + 1}

Wallets == {"0xa", "0xb"}

\* A freshness test that asks for an age below 48 hours.
IsWalletFreshBelow(threshold, nonce, age_hours) ==
    IF nonce >= threshold
    THEN FALSE
    ELSE ~(age_hours # NoAge /\ age_hours >= AgeLimit)

\* WalletAnalyzer._is_wallet_fresh
IsWalletFresh(threshold, nonce, age_hours) ==
    IF nonce >= threshold
    THEN FALSE
    ELSE ~(age_hours # NoAge /\ age_hours > AgeLimit)

\* WalletProfile
WalletProfile(address, nonce, age_hours, is_fresh, threshold) ==
    [address |-> address, nonce |-> nonce, age_hours |-> age_hours,
     is_fresh |-> is_fresh, fresh_threshold |-> threshold]

NoProfile ==
    [address |-> "", nonce |-> 0, age_hours |-> NoAge, is_fresh |-> FALSE,
     fresh_threshold |-> 0]

AnalyzerInit ==
    /\ fresh_threshold \in ThresholdChoices
    /\ profileCache = [w \in Wallets |-> NoProfile]
    /\ lastProfile = NoProfile

AnalyzerQuiet ==
    /\ fresh_threshold = 2
    /\ profileCache = [w \in Wallets |-> NoProfile]
    /\ lastProfile = NoProfile

\* WalletAnalyzer.analyze(address, force_refresh): the cached profile when
\* there is one and no refresh is forced; otherwise a profile built from
\* the wallet's transaction count and the age of its first transaction,
\* which is then cached.
Analyze(address, force_refresh, nonce, age_hours) ==
    /\ IF ~force_refresh /\ profileCache[address] # NoProfile
       THEN /\ lastProfile' = profileCache[address]
            /\ UNCHANGED profileCache
       ELSE LET is_fresh == IsWalletFresh(fresh_threshold, nonce, age_hours)
                profile == WalletProfile(address, nonce, age_hours, is_fresh,
                                         fresh_threshold)
            IN  /\ lastProfile' = profile
                /\ profileCache' = [profileCache EXCEPT ![address] = profile]
    /\ UNCHANGED fresh_threshold
    /\ UNCHANGED analyzerOthers

\* The cached profile's TTL runs out.
CacheExpire(address) ==
    /\ profileCache[address] # NoProfile
    /\ profileCache' = [profileCache EXCEPT ![address] = NoProfile]
    /\ UNCHANGED <<fresh_threshold, lastProfile>>
    /\ UNCHANGED analyzerOthers

AnalyzerNext ==
    \/ \E address \in Wallets, force_refresh \in BOOLEAN,
          nonce \in 0..MaxNonce, age_hours \in Ages :
            Analyze(address, force_refresh, nonce, age_hours)
    \/ \E address \in Wallets : CacheExpire(address)

(***************************************************************************)
(* profiler/funding.py                                                     *)
(***************************************************************************)

\* The largest max_hops of the runs (the default is 3).
MaxHopsBound == 2

\* The addresses of the transfer graph, and "no transfer found".
Addresses == {"a", "b", "c"}
NoAddress == ""

\* max_hops is None
NoOverride == -1

\* FundingChain
FundingChain(addr, ch, origin, type) ==
    [target_address |-> addr, chain |-> ch, origin_address |-> origin,
     origin_type |-> type, hop_count |-> Len(ch)]

NoChain == FundingChain(NoAddress, <<>>, NoAddress, "unknown")

\* An effective max_hops taken with "or": an override of 0 counts as none.
EffectiveMaxHopsOr(override, configured) ==
    IF override # NoOverride /\ override # 0 THEN override ELSE configured

\* max_hops if max_hops is not None else self.max_hops
EffectiveMaxHops(override, configured) ==
    IF override # NoOverride THEN override ELSE configured

\* After the constructor: any first-transfer graph (cycles included), any
\* set of terminal entities, any configured max_hops.
FundInit ==
    /\ first_sender \in [Addresses -> Addresses \cup {NoAddress}]
    /\ terminals \in SUBSET Addresses
    /\ max_hops \in 0..MaxHopsBound
    /\ tpc = "idle"
    /\ override_hops = NoOverride
    /\ effective_max_hops = 0
    /\ hop = 0
    /\ target = NoAddress
    /\ chain = <<>>
    /\ current_address = NoAddress
    /\ origin_address = NoAddress
    /\ origin_type = "unknown"
    /\ lookups = 0
    /\ lastChain = NoChain

FundQuiet ==
    /\ first_sender = [a \in Addresses |-> NoAddress]
    /\ terminals = {}
    /\ max_hops = 0
    /\ tpc = "idle"
    /\ override_hops = NoOverride
    /\ effective_max_hops = 0
    /\ hop = 0
    /\ target = NoAddress
    /\ chain = <<>>
    /\ current_address = NoAddress
    /\ origin_address = NoAddress
    /\ origin_type = "unknown"
    /\ lookups = 0
    /\ lastChain = NoChain

\* trace(address, max_hops) up to the loop
TraceCall(address, override) ==
    /\ tpc \in {"idle", "done"}
    /\ tpc' = "loop"
    /\ override_hops' = override
    /\ effective_max_hops' = EffectiveMaxHops(override, max_hops)
    /\ hop' = 0
    /\ target' = address
    /\ chain' = <<>>
    /\ current_address' = address
    /\ origin_address' = address
    /\ origin_type' = "unknown"
    /\ lookups' = 0
    /\ UNCHANGED <<first_sender, terminals, max_hops, lastChain>>
    /\ UNCHANGED fundOthers

\* One pass of the loop: stop at a known entity; else look the first
\* transfer up (an RPC error counts as no transfer) and stop when there is
\* none; else take the hop and stop when the sender is a known entity.
TraceHop(found) ==
    /\ tpc = "loop"
    /\ hop < effective_max_hops
    /\ IF current_address \in terminals
       THEN /\ origin_address' = current_address
            /\ origin_type' = "terminal"
            /\ tpc' = "return"
            /\ UNCHANGED <<chain, current_address, lookups, hop>>
       ELSE /\ lookups' = lookups + 1
            /\ IF ~found \/ first_sender[current_address] = NoAddress
               THEN /\ origin_address' = current_address
                    /\ tpc' = "return"
                    /\ UNCHANGED <<chain, current_address, origin_type, hop>>
               ELSE LET from_address == first_sender[current_address]
                    IN  /\ chain' = Append(chain, [from_address |-> from_address,
                                                   to_address |-> current_address])
                        /\ origin_address' = from_address
                        /\ current_address' = from_address
                        /\ hop' = hop + 1
                        /\ IF from_address \in terminals
                           THEN /\ origin_type' = "terminal"
                                /\ tpc' = "return"
                           ELSE /\ UNCHANGED origin_type
                                /\ tpc' = "loop"
    /\ UNCHANGED <<first_sender, terminals, max_hops, override_hops,
                   effective_max_hops, target, lastChain>>
    /\ UNCHANGED fundOthers

\* The loop is over (a break, or range(effective_max_hops) is used up):
\* trace returns the FundingChain.
TraceReturn ==
    /\ \/ tpc = "return"
       \/ tpc = "loop" /\ hop >= effective_max_hops
    /\ tpc' = "done"
    /\ lastChain' = FundingChain(target, chain, origin_address, origin_type)
    /\ UNCHANGED <<first_sender, terminals, max_hops, override_hops,
                   effective_max_hops, hop, target, chain, current_address,
                   origin_address, origin_type, lookups>>
    /\ UNCHANGED fundOthers

FundNext ==
    \/ \E address \in Addresses, override \in {NoOverride} \cup 0..MaxHopsBound :
          TraceCall(address, override)
    \/ \E found \in BOOLEAN : TraceHop(found)
    \/ TraceReturn

(***************************************************************************)
(* detector/sniper.py                                                      *)
(*                                                                         *)
(* DBSCAN is taken as a function of the feature matrix: any labelling of   *)
(* the rows may come out of it, and the same rows give the same labelling. *)
(***************************************************************************)

\* min_cluster_size (default 3) and min_entries_per_wallet (default 2),
\* scaled down
MinClusterSize == 2
MinEntriesPerWallet == 1

\* The entries a wallet has at most, the entries held at a time, and the
\* run_clustering calls of a run.
MaxWalletEntries == 2
MaxTotalEntries == 4
MaxRuns == 2

RECURSIVE SumOver(_, _)
SumOver(f, S) ==
    IF S = {} THEN 0
    ELSE LET x == CHOOSE y \in S : TRUE
         IN  f[x] + SumOver(f, S \ {x})

SniperWallets == {"s1", "s2", "s3"}

\* DBSCAN's labels: -1 is noise
Noise == -1
ClusterLabels == {0, 1}

RECURSIVE SetToSeq(_)
SetToSeq(S) ==
    IF S = {} THEN <<>>
    ELSE LET x == CHOOSE y \in S : TRUE
         IN  <<x>> \o SetToSeq(S \ {x})

\* eligible_wallets of run_clustering
EligibleWallets(entries) ==
    {w \in SniperWallets : entries[w] >= MinEntriesPerWallet}

\* The rows of the feature matrix (_build_feature_matrix): one per entry of
\* an eligible wallet; wallet_index maps the row to its wallet.
FeatureRows(entries) ==
    {r \in SniperWallets \X (1..MaxWalletEntries) :
        r[1] \in EligibleWallets(entries) /\ r[2] <= entries[r[1]]}

\* cluster_wallets of one label
ClusterWallets(labels, l) ==
    {r[1] : r \in {q \in DOMAIN labels : labels[q] = l}}

\* A processing of the results that does not keep track of the wallets it
\* has signaled.
ProcessClusteringResultsNoTrack(labels, signaled) ==
    LET Step(acc, cw) ==
            IF Cardinality(cw) < MinClusterSize THEN acc
            ELSE [signals |-> acc.signals \o SetToSeq(cw \ acc.signaled),
                  signaled |-> acc.signaled]
        c0 == Step([signals |-> <<>>, signaled |-> signaled],
                   ClusterWallets(labels, 0))
    IN  Step(c0, ClusterWallets(labels, 1))

\* SniperDetector._process_clustering_results: cluster by cluster, a signal
\* for each wallet of a cluster of min_cluster_size wallets that is not in
\* _signaled_wallets, which then takes the wallet in. The signals and
\* _signaled_wallets after it.
ProcessClusteringResults(labels, signaled) ==
    LET Step(acc, cw) ==
            IF Cardinality(cw) < MinClusterSize THEN acc
            ELSE [signals |-> acc.signals \o SetToSeq(cw \ acc.signaled),
                  signaled |-> acc.signaled \cup (cw \ acc.signaled)]
        c0 == Step([signals |-> <<>>, signaled |-> signaled],
                   ClusterWallets(labels, 0))
    IN  Step(c0, ClusterWallets(labels, 1))

SniperInit ==
    /\ wallet_entries = [w \in SniperWallets |-> 0]
    /\ signaled_wallets = {}
    /\ lastLabels = <<>>
    /\ dataChanged = TRUE
    /\ lastSignals = <<>>
    /\ lastRerun = FALSE
    /\ signalCount = [w \in SniperWallets |-> 0]
    /\ runs = 0

SniperQuiet == SniperInit

\* record_entry: an entry within the threshold after the market's creation
\* is kept, any other is dropped
RecordEntry(w, within) ==
    /\ wallet_entries[w] < MaxWalletEntries
    /\ SumOver(wallet_entries, SniperWallets) < MaxTotalEntries
    /\ IF within
       THEN /\ wallet_entries' = [wallet_entries EXCEPT ![w] = @ + 1]
            /\ dataChanged' = TRUE
       ELSE UNCHANGED <<wallet_entries, dataChanged>>
    /\ UNCHANGED <<signaled_wallets, lastLabels, lastSignals, lastRerun,
                   signalCount, runs>>
    /\ UNCHANGED sniperOthers

\* clear_entries
ClearEntries ==
    /\ \E w \in SniperWallets : wallet_entries[w] > 0
    /\ wallet_entries' = [w \in SniperWallets |-> 0]
    /\ dataChanged' = TRUE
    /\ UNCHANGED <<signaled_wallets, lastLabels, lastSignals, lastRerun,
                   signalCount, runs>>
    /\ UNCHANGED sniperOthers

\* run_clustering, where DBSCAN gives the rows the labels "labels"
RunClustering(labels) ==
    /\ runs < MaxRuns
    /\ runs' = runs + 1
    /\ lastRerun' = ~dataChanged
    /\ dataChanged' = FALSE
    /\ IF Cardinality(EligibleWallets(wallet_entries)) < MinClusterSize
       THEN /\ labels = <<>>
            /\ lastSignals' = <<>>
            /\ lastLabels' = <<>>
            /\ UNCHANGED <<signaled_wallets, signalCount>>
       ELSE /\ DOMAIN labels = FeatureRows(wallet_entries)
            /\ dataChanged \/ labels = lastLabels
            /\ LET r == ProcessClusteringResults(labels, signaled_wallets)
               IN  /\ lastSignals' = r.signals
                   /\ signaled_wallets' = r.signaled
                   /\ signalCount' =
                        [w \in SniperWallets |->
                           signalCount[w]
                           + Cardinality({i \in 1..Len(r.signals) : r.signals[i] = w})]
            /\ lastLabels' = labels
    /\ UNCHANGED wallet_entries
    /\ UNCHANGED sniperOthers

SniperNext ==
    \/ \E w \in SniperWallets, within \in BOOLEAN : RecordEntry(w, within)
    \/ ClearEntries
    \/ \E labels \in {<<>>} \cup
                    [FeatureRows(wallet_entries) -> ClusterLabels \cup {Noise}] :
          RunClustering(labels)

(***************************************************************************)
(* alerter/history.py                                                      *)
(*                                                                         *)
(* Time is in hours: the dedup key holds the hour of the call.             *)
(***************************************************************************)

\* Concurrent workers, the should_send calls of a run, the last hour.
NumWorkers == 2
MaxChecks == 3
HistMaxTime == 1

Workers == 1..NumWorkers

\* wallet_address:market_id of the assessments
AlertKeys == {"w1:m1", "w2:m1"}

\* _generate_dedup_key(wallet_address, market_id, hour)
GenerateDedupKey(k, hour) == <<k, hour>>

\* pipe.set(dedup_redis_key, "1", ex=...): a plain SET
RedisSet(keys, k) == [was_set |-> TRUE, store |-> keys \cup {k}]

HistInit ==
    /\ alertDedup = {}
    /\ hpc = [w \in Workers |-> "idle"]
    /\ hkey = [w \in Workers |-> ""]
    /\ sendLog = <<>>

HistQuiet == HistInit

\* should_send: EXISTS on the dedup key of the current hour. On True the
\* worker goes on to send the alert and to record it.
ShouldSend(w, k) ==
    /\ hpc[w] = "idle"
    /\ Len(sendLog) < MaxChecks
    /\ LET exists == GenerateDedupKey(k, now) \in alertDedup
       IN  /\ sendLog' = Append(sendLog, [worker |-> w, key |-> k, hour |-> now,
                                          should_send |-> ~exists])
           /\ IF exists
              THEN UNCHANGED <<hpc, hkey>>
              ELSE /\ hpc' = [hpc EXCEPT ![w] = "send"]
                   /\ hkey' = [hkey EXCEPT ![w] = k]
    /\ UNCHANGED <<now, alertDedup>>
    /\ UNCHANGED histOthers

\* record_sent after the dispatch: the pipeline sets the dedup key of the
\* hour it runs in
RecordSent(w) ==
    /\ hpc[w] = "send"
    /\ alertDedup' = RedisSet(alertDedup, GenerateDedupKey(hkey[w], now)).store
    /\ hpc' = [hpc EXCEPT ![w] = "idle"]
    /\ hkey' = [hkey EXCEPT ![w] = ""]
    /\ UNCHANGED <<now, sendLog>>
    /\ UNCHANGED histOthers

\* an hour passes
HistTick ==
    /\ now < HistMaxTime
    /\ now' = now + 1
    /\ UNCHANGED <<alertDedup, hpc, hkey, sendLog>>
    /\ UNCHANGED histOthers

HistNext ==
    \/ \E w \in Workers, k \in AlertKeys : ShouldSend(w, k)
    \/ \E w \in Workers : RecordSent(w)
    \/ HistTick

(***************************************************************************)
(* ingestor/metadata_sync.py                                               *)
(***************************************************************************)

\* Concurrent start() calls, the background tasks a run creates, and the
\* successful syncs of a run.
NumStartCalls == 2
MaxTasks == 2
MaxSyncs == 2

\* The sync attempts of a run
MaxAttempts == 3

StartCalls == 1..NumStartCalls
TaskIds == 1..MaxTasks

\* What is known of a start() call that is over: how it ended, whether its
\* initial sync failed, whether a sync had succeeded by then, and how many
\* background tasks were running.
StartOutcome(outcome, failed, synced, tasks) ==
    [outcome |-> outcome, sync_failed |-> failed, synced |-> synced,
     tasks |-> tasks]

NoStart == StartOutcome("none", FALSE, FALSE, 0)

\* The background tasks that have not ended, given the tasks' positions
RunningTasks(ts) == {t \in TaskIds : ts[t] \in {"wait", "sync"}}

MsyncInit ==
    /\ syncState = "STOPPED"
    /\ stop_event = FALSE
    /\ sync_task = 0
    /\ taskPc = [t \in TaskIds |-> "none"]
    /\ mstartPc = [c \in StartCalls |-> "idle"]
    /\ mstopPc = "idle"
    /\ successful_syncs = 0
    /\ total_syncs = 0
    /\ failed_syncs = 0
    /\ lastStart = NoStart

MsyncQuiet == MsyncInit

\* start() up to the await of the initial sync: refused, with a warning
\* and a plain return, unless the state is STOPPED
MetaStart(c) ==
    /\ mstartPc[c] = "idle"
    /\ \A c2 \in StartCalls : c2 < c => mstartPc[c2] # "idle"
    /\ IF syncState # "STOPPED"
       THEN /\ lastStart' = StartOutcome("returned", FALSE, successful_syncs > 0,
                                         Cardinality(RunningTasks(taskPc)))
            /\ UNCHANGED <<syncState, stop_event, mstartPc, total_syncs>>
       ELSE /\ \E t \in TaskIds : taskPc[t] = "none"
            /\ Cardinality({t \in TaskIds : taskPc[t] # "none"})
                 + Cardinality({c2 \in StartCalls : mstartPc[c2] = "sync"}) < MaxTasks
            /\ total_syncs < MaxAttempts
            /\ syncState' = "SYNCING"
            /\ total_syncs' = total_syncs + 1
            /\ stop_event' = FALSE
            /\ mstartPc' = [mstartPc EXCEPT ![c] = "sync"]
            /\ UNCHANGED lastStart
    /\ UNCHANGED <<sync_task, taskPc, mstopPc, successful_syncs, failed_syncs>>
    /\ UNCHANGED msyncOthers

\* the initial sync succeeds: the background task is created, start()
\* returns
MetaStartSyncOk(c) ==
    /\ mstartPc[c] = "sync"
    /\ successful_syncs < MaxSyncs
    /\ LET t == CHOOSE x \in TaskIds :
                  taskPc[x] = "none" /\ \A y \in TaskIds : taskPc[y] = "none" => x <= y
           ts == [taskPc EXCEPT ![t] = "wait"]
       IN  /\ taskPc' = ts
           /\ sync_task' = t
           /\ lastStart' = StartOutcome("returned", FALSE, TRUE,
                                        Cardinality(RunningTasks(ts)))
    /\ successful_syncs' = successful_syncs + 1
    /\ syncState' = "IDLE"
    /\ mstartPc' = [mstartPc EXCEPT ![c] = "idle"]
    /\ UNCHANGED <<stop_event, mstopPc, total_syncs, failed_syncs>>
    /\ UNCHANGED msyncOthers

\* the initial sync fails: _sync_all_markets counts the failure and goes
\* to ERROR, start() raises MetadataSyncError
MetaStartSyncFails(c) ==
    /\ mstartPc[c] = "sync"
    /\ failed_syncs' = failed_syncs + 1
    /\ syncState' = "ERROR"
    /\ mstartPc' = [mstartPc EXCEPT ![c] = "idle"]
    /\ lastStart' = StartOutcome("raised", TRUE, successful_syncs > 0,
                                 Cardinality(RunningTasks(taskPc)))
    /\ UNCHANGED <<stop_event, sync_task, taskPc, mstopPc, successful_syncs,
                   total_syncs>>
    /\ UNCHANGED msyncOthers

\* stop() up to the await of the cancelled task; with no task it runs to
\* its end
MetaStop ==
    /\ mstopPc = "idle"
    /\ syncState # "STOPPED"
    /\ stop_event' = TRUE
    /\ IF sync_task # 0
       THEN /\ syncState' = "STOPPING"
            /\ taskPc' = [taskPc EXCEPT ![sync_task] = "done"]
            /\ mstopPc' = "await"
       ELSE /\ syncState' = "STOPPED"
            /\ UNCHANGED <<taskPc, mstopPc>>
    /\ UNCHANGED <<sync_task, mstartPc, successful_syncs, total_syncs,
                   failed_syncs, lastStart>>
    /\ UNCHANGED msyncOthers

\* the cancelled task is over: stop() goes to STOPPED and returns
MetaStopDone ==
    /\ mstopPc = "await"
    /\ sync_task' = 0
    /\ syncState' = "STOPPED"
    /\ mstopPc' = "idle"
    /\ UNCHANGED <<stop_event, taskPc, mstartPc, successful_syncs, total_syncs,
                   failed_syncs, lastStart>>
    /\ UNCHANGED msyncOthers

\* _sync_loop: the wait times out, a periodic sync begins
TaskTimeout(t) ==
    /\ taskPc[t] = "wait"
    /\ ~stop_event
    /\ total_syncs < MaxAttempts
    /\ taskPc' = [taskPc EXCEPT ![t] = "sync"]
    /\ syncState' = "SYNCING"
    /\ total_syncs' = total_syncs + 1
    /\ UNCHANGED <<stop_event, sync_task, mstartPc, mstopPc, successful_syncs,
                   failed_syncs, lastStart>>
    /\ UNCHANGED msyncOthers

\* the periodic sync ends, well or not; the loop goes on.  A failing
\* _sync_all_markets counts the failure and re-raises, and the loop's own
\* "except Exception" counts it again.
TaskSyncEnds(t, ok) ==
    /\ taskPc[t] = "sync"
    /\ IF ok
       THEN /\ successful_syncs < MaxSyncs
            /\ successful_syncs' = successful_syncs + 1
            /\ syncState' = "IDLE"
            /\ UNCHANGED failed_syncs
       ELSE /\ syncState' = "ERROR"
            /\ failed_syncs' = (failed_syncs + 1) + 1
            /\ UNCHANGED successful_syncs
    /\ UNCHANGED total_syncs
    /\ taskPc' = [taskPc EXCEPT ![t] = "wait"]
    /\ UNCHANGED <<stop_event, sync_task, mstartPc, mstopPc, lastStart>>
    /\ UNCHANGED msyncOthers

\* _sync_loop sees the stop event and ends
TaskExit(t) ==
    /\ taskPc[t] = "wait"
    /\ stop_event
    /\ taskPc' = [taskPc EXCEPT ![t] = "done"]
    /\ UNCHANGED <<syncState, stop_event, sync_task, mstartPc, mstopPc,
                   successful_syncs, total_syncs, failed_syncs, lastStart>>
    /\ UNCHANGED msyncOthers

MsyncNext ==
    \/ \E c \in StartCalls : MetaStart(c)
    \/ \E c \in StartCalls : MetaStartSyncOk(c)
    \/ \E c \in StartCalls : MetaStartSyncFails(c)
    \/ MetaStop
    \/ MetaStopDone
    \/ \E t \in TaskIds : TaskTimeout(t)
    \/ \E t \in TaskIds, ok \in BOOLEAN : TaskSyncEnds(t, ok)
    \/ \E t \in TaskIds : TaskExit(t)

(***************************************************************************)
(* ingestor/health.py                                                      *)
(***************************************************************************)

\* stale_threshold_seconds (default 60), in time units, and the last
\* instant of the clock
StaleThreshold == 1
HealthMaxTime == 2

StreamNames == {"trades", "book"}

\* StreamHealth of a stream that register_stream has just created; a name
\* that is not in _streams has the status "unregistered"
NewStreamHealth ==
    [status |-> "DISCONNECTED", last_event_time |-> NoTime,
     connected_since |-> NoTime]

Unregistered ==
    [status |-> "unregistered", last_event_time |-> NoTime,
     connected_since |-> NoTime]

\* register_stream
RegisterStream(st, name) ==
    IF st[name].status = "unregistered"
    THEN [st EXCEPT ![name] = NewStreamHealth]
    ELSE st

\* _check_stream_staleness on one stream at time t
CheckStaleness(s, t) ==
    IF s.status \in {"unregistered", "DISCONNECTED"} THEN s
    ELSE IF s.last_event_time = NoTime
    THEN IF s.connected_since # NoTime /\ t - s.connected_since > StaleThreshold
         THEN [s EXCEPT !.status = "STALE"]
         ELSE s
    ELSE IF t - s.last_event_time > StaleThreshold
         THEN [s EXCEPT !.status = "STALE"]
         ELSE [s EXCEPT !.status = "ACTIVE"]

\* The statuses of the registered streams
Statuses(st) ==
    {st[n].status : n \in {m \in StreamNames : st[m].status # "unregistered"}}

\* An overall status without the case of no streams
DetermineOverallStatusNoGuard(st) ==
    LET statuses == Statuses(st)
    IN  IF \A s \in statuses : s = "DISCONNECTED" THEN "UNHEALTHY"
        ELSE IF "DISCONNECTED" \in statuses THEN "DEGRADED"
        ELSE IF "STALE" \in statuses THEN "DEGRADED"
        ELSE "HEALTHY"

\* _determine_overall_status
DetermineOverallStatus(st) ==
    LET statuses == Statuses(st)
    IN  IF statuses = {} THEN "HEALTHY"
        ELSE IF \A s \in statuses : s = "DISCONNECTED" THEN "UNHEALTHY"
        ELSE IF "DISCONNECTED" \in statuses THEN "DEGRADED"
        ELSE IF "STALE" \in statuses THEN "DEGRADED"
        ELSE "HEALTHY"

\* HealthReport: the overall status and the copies of the streams
HealthReport(status, st) ==
    [status |-> status, streams |-> [n \in StreamNames |-> st[n].status]]

NoReport == [status |-> "none", streams |-> [n \in StreamNames |-> "unregistered"]]

HealthInit ==
    /\ streams = [n \in StreamNames |-> Unregistered]
    /\ lastReport = NoReport
    /\ quietSince = [n \in StreamNames |-> NoTime]
    /\ quietAtCheck = [n \in StreamNames |-> NoTime]

HealthQuiet == HealthInit

\* register_stream called on its own
Register(name) ==
    /\ streams[name].status = "unregistered"
    /\ streams' = RegisterStream(streams, name)
    /\ UNCHANGED <<now, lastReport, quietSince, quietAtCheck>>
    /\ UNCHANGED healthOthers

\* set_stream_connected, called when the stream's connection is made
SetStreamConnected(name) ==
    /\ streams[name].status \in {"unregistered", "DISCONNECTED"}
    /\ streams' = [RegisterStream(streams, name) EXCEPT
                      ![name].status = "ACTIVE",
                      ![name].connected_since = now]
    /\ quietSince' = [quietSince EXCEPT ![name] = now]
    /\ UNCHANGED <<now, lastReport, quietAtCheck>>
    /\ UNCHANGED healthOthers

\* set_stream_disconnected
SetStreamDisconnected(name) ==
    /\ streams[name].status \in {"ACTIVE", "STALE"}
    /\ streams' = [streams EXCEPT ![name].status = "DISCONNECTED",
                                  ![name].connected_since = NoTime]
    /\ quietSince' = [quietSince EXCEPT ![name] = NoTime]
    /\ UNCHANGED <<now, lastReport, quietAtCheck>>
    /\ UNCHANGED healthOthers

\* record_event
RecordEvent(name) ==
    /\ streams' = [RegisterStream(streams, name) EXCEPT
                      ![name].status = "ACTIVE",
                      ![name].last_event_time = now]
    /\ quietSince' = [quietSince EXCEPT ![name] = now]
    /\ UNCHANGED <<now, lastReport, quietAtCheck>>
    /\ UNCHANGED healthOthers

\* get_health_report (the health check of the loop and of /health): the
\* staleness check of every stream, then the overall status
GetHealthReport ==
    /\ LET checked == [n \in StreamNames |-> CheckStaleness(streams[n], now)]
       IN  /\ streams' = checked
           /\ lastReport' = HealthReport(DetermineOverallStatus(checked), checked)
    /\ quietAtCheck' =
          [n \in StreamNames |->
             IF quietSince[n] = NoTime THEN NoTime ELSE now - quietSince[n]]
    /\ UNCHANGED <<now, quietSince>>
    /\ UNCHANGED healthOthers

\* time passes
HealthTick ==
    /\ now < HealthMaxTime
    /\ now' = now + 1
    /\ UNCHANGED <<streams, lastReport, quietSince, quietAtCheck>>
    /\ UNCHANGED healthOthers

HealthNext ==
    \/ \E name \in StreamNames : Register(name)
    \/ \E name \in StreamNames : SetStreamConnected(name)
    \/ \E name \in StreamNames : SetStreamDisconnected(name)
    \/ \E name \in StreamNames : RecordEvent(name)
    \/ GetHealthReport
    \/ HealthTick

(***************************************************************************)
(* shutdown.py                                                             *)
(***************************************************************************)

\* Registered cleanup callbacks, at most
MaxCallbacks == 2

\* SHUTDOWN_SIGNALS: SIGINT and SIGTERM, by their numbers
ShutdownSignals == {2, 15}

\* exitCode of a process that has not exited
NoExit == -1

CallbackIds == {"stop", "flush"}

\* What a call of a cleanup callback (and the await of its coroutine) does:
\* it returns, raises an Exception, or raises a BaseException that is not an
\* Exception (asyncio.CancelledError, SystemExit, KeyboardInterrupt)
CallbackOutcomes == {"returns", "Exception", "BaseException"}

\* The exit status of sys.exit(128 + sig.value)
ForceExitCode(sig) == 128 + sig

ShutdownInit ==
    /\ shutdown_event = "none"
    /\ shutdown_requested = FALSE
    /\ force_exit_requested = FALSE
    /\ cleanup_callbacks = <<>>
    /\ handlersInstalled = FALSE
    /\ exitCode = NoExit
    /\ waiterPc = "none"
    /\ cleanupPc = "idle"
    /\ cleanupPos = 1
    /\ invoked = <<>>
    /\ signalsReceived = 0
    /\ lastSignal = 0

ShutdownQuiet == ShutdownInit

\* install_signal_handlers: a new event, the handlers of both signals
InstallSignalHandlers ==
    /\ exitCode = NoExit
    /\ ~handlersInstalled
    /\ handlersInstalled' = TRUE
    /\ shutdown_event' = "clear"
    /\ UNCHANGED <<shutdown_requested, force_exit_requested, cleanup_callbacks,
                   exitCode, waiterPc, cleanupPc, cleanupPos, invoked,
                   signalsReceived, lastSignal>>
    /\ UNCHANGED shutdownOthers

\* remove_signal_handlers
RemoveSignalHandlers ==
    /\ exitCode = NoExit
    /\ handlersInstalled
    /\ handlersInstalled' = FALSE
    /\ UNCHANGED <<shutdown_event, shutdown_requested, force_exit_requested,
                   cleanup_callbacks, exitCode, waiterPc, cleanupPc, cleanupPos,
                   invoked, signalsReceived, lastSignal>>
    /\ UNCHANGED shutdownOthers

\* request_shutdown
RequestShutdown ==
    /\ exitCode = NoExit
    /\ ~shutdown_requested
    /\ shutdown_requested' = TRUE
    /\ shutdown_event' = IF shutdown_event = "none" THEN "none" ELSE "set"
    /\ UNCHANGED <<force_exit_requested, cleanup_callbacks, handlersInstalled,
                   exitCode, waiterPc, cleanupPc, cleanupPos, invoked,
                   signalsReceived, lastSignal>>
    /\ UNCHANGED shutdownOthers

\* _handle_signal, run by the installed handler when sig is delivered
HandleSignal(sig) ==
    /\ exitCode = NoExit
    /\ handlersInstalled
    /\ signalsReceived' = signalsReceived + 1
    /\ lastSignal' = sig
    /\ IF shutdown_requested
       THEN /\ force_exit_requested' = TRUE
            /\ exitCode' = ForceExitCode(sig)
            /\ UNCHANGED <<shutdown_requested, shutdown_event>>
       ELSE /\ shutdown_requested' = TRUE
            /\ shutdown_event' = IF shutdown_event = "none" THEN "none" ELSE "set"
            /\ UNCHANGED <<force_exit_requested, exitCode>>
    /\ UNCHANGED <<cleanup_callbacks, handlersInstalled, waiterPc, cleanupPc,
                   cleanupPos, invoked>>
    /\ UNCHANGED shutdownOthers

\* wait (timed FALSE) or wait_with_timeout (timed TRUE) up to its await:
\* the event is made when there is none
WaitBegin(timed) ==
    /\ exitCode = NoExit
    /\ waiterPc = "none"
    /\ waiterPc' = IF timed THEN "waiting_timeout" ELSE "waiting"
    /\ shutdown_event' = IF shutdown_event = "none" THEN "clear" ELSE shutdown_event
    /\ UNCHANGED <<shutdown_requested, force_exit_requested, cleanup_callbacks,
                   handlersInstalled, exitCode, cleanupPc, cleanupPos, invoked,
                   signalsReceived, lastSignal>>
    /\ UNCHANGED shutdownOthers

\* wait returns, wait_with_timeout returns True: the event is set
WaitWake ==
    /\ exitCode = NoExit
    /\ waiterPc \in {"waiting", "waiting_timeout"}
    /\ shutdown_event = "set"
    /\ waiterPc' = "woken"
    /\ UNCHANGED <<shutdown_event, shutdown_requested, force_exit_requested,
                   cleanup_callbacks, handlersInstalled, exitCode, cleanupPc,
                   cleanupPos, invoked, signalsReceived, lastSignal>>
    /\ UNCHANGED shutdownOthers

\* wait_with_timeout returns False: the timeout passed with the event clear
WaitTimesOut ==
    /\ exitCode = NoExit
    /\ waiterPc = "waiting_timeout"
    /\ shutdown_event # "set"
    /\ waiterPc' = "timedout"
    /\ UNCHANGED <<shutdown_event, shutdown_requested, force_exit_requested,
                   cleanup_callbacks, handlersInstalled, exitCode, cleanupPc,
                   cleanupPos, invoked, signalsReceived, lastSignal>>
    /\ UNCHANGED shutdownOthers

\* register_cleanup
RegisterCleanup(cb) ==
    /\ exitCode = NoExit
    /\ Len(cleanup_callbacks) < MaxCallbacks
    /\ cleanupPc \in {"idle", "running"}
    /\ cleanup_callbacks' = Append(cleanup_callbacks, cb)
    /\ UNCHANGED <<shutdown_event, shutdown_requested, force_exit_requested,
                   handlersInstalled, exitCode, waiterPc, cleanupPc, cleanupPos,
                   invoked, signalsReceived, lastSignal>>
    /\ UNCHANGED shutdownOthers

\* run_cleanup_callbacks is called: the loop starts at the first callback
RunCleanupCallbacks ==
    /\ exitCode = NoExit
    /\ cleanupPc = "idle"
    /\ cleanupPc' = "running"
    /\ cleanupPos' = 1
    /\ invoked' = <<>>
    /\ UNCHANGED <<shutdown_event, shutdown_requested, force_exit_requested,
                   cleanup_callbacks, handlersInstalled, exitCode, waiterPc,
                   signalsReceived, lastSignal>>
    /\ UNCHANGED shutdownOthers

\* One turn of the loop of run_cleanup_callbacks: the callback is called and
\* its coroutine awaited; "except Exception" logs an Exception and the loop
\* goes on, anything else leaves run_cleanup_callbacks
CleanupCall(outcome) ==
    /\ exitCode = NoExit
    /\ cleanupPc = "running"
    /\ cleanupPos <= Len(cleanup_callbacks)
    /\ invoked' = Append(invoked, cleanup_callbacks[cleanupPos])
    /\ IF outcome \in {"returns", "Exception"}
       THEN /\ cleanupPos' = cleanupPos + 1
            /\ UNCHANGED cleanupPc
       ELSE /\ cleanupPc' = "raised"
            /\ UNCHANGED cleanupPos
    /\ UNCHANGED <<shutdown_event, shutdown_requested, force_exit_requested,
                   cleanup_callbacks, handlersInstalled, exitCode, waiterPc,
                   signalsReceived, lastSignal>>
    /\ UNCHANGED shutdownOthers

\* run_cleanup_callbacks returns: the list is exhausted
CleanupReturn ==
    /\ exitCode = NoExit
    /\ cleanupPc = "running"
    /\ cleanupPos > Len(cleanup_callbacks)
    /\ cleanupPc' = "returned"
    /\ UNCHANGED <<shutdown_event, shutdown_requested, force_exit_requested,
                   cleanup_callbacks, handlersInstalled, exitCode, waiterPc,
                   cleanupPos, invoked, signalsReceived, lastSignal>>
    /\ UNCHANGED shutdownOthers

ShutdownNext ==
    \/ InstallSignalHandlers
    \/ RemoveSignalHandlers
    \/ RequestShutdown
    \/ \E sig \in ShutdownSignals : HandleSignal(sig)
    \/ \E timed \in BOOLEAN : WaitBegin(timed)
    \/ WaitWake
    \/ WaitTimesOut
    \/ \E cb \in CallbackIds : RegisterCleanup(cb)
    \/ RunCleanupCallbacks
    \/ \E outcome \in CallbackOutcomes : CleanupCall(outcome)
    \/ CleanupReturn

(***************************************************************************)
(* alerter/dispatcher.py: dispatch over the list of channel objects        *)
(***************************************************************************)

\* AlertDispatcher.channels is a list of channel objects; the name of a
\* channel is fixed by its class ("discord", "telegram"), so two objects of
\* one class share a name. At most MaxChannels objects, and dispatch() is
\* called at most MaxListCalls times, up to the instant GatherMaxTime.
MaxChannels == 2
MaxListCalls == 2
GatherMaxTime == 1

RECURSIVE SeqsUpTo(_, _)
SeqsUpTo(S, n) ==
    IF n = 0 THEN {<<>>}
    ELSE LET shorter == SeqsUpTo(S, n - 1)
         IN  shorter \cup {Append(q, x) : q \in {r \in shorter : Len(r) = n - 1}, x \in S}

\* What the await of channel.send does: it returns True or False, raises an
\* Exception, or raises a BaseException that is not an Exception
\* (asyncio.CancelledError)
SendOutcomes == {"True", "False", "Exception", "BaseException"}

NamesOf(chs) == {chs[i] : i \in DOMAIN chs}

\* dict(results) of the gathered (name, bool) pairs, taken in the order of the
\* channels: of two pairs with one name the later one stays
DictOfResults(chs, pcs) ==
    [n \in NamesOf(chs) |->
        LET last == CHOOSE i \in DOMAIN chs :
                       chs[i] = n /\ \A k \in DOMAIN chs : chs[k] = n => k <= i
        IN  pcs[last] = "ok"]

\* DispatchResult built by dispatch() from channel_results
ListResult(chs, pcs) ==
    LET channel_results == DictOfResults(chs, pcs)
        success_count == Cardinality({n \in DOMAIN channel_results : channel_results[n]})
    IN  [success_count |-> success_count,
         failure_count |-> Cardinality(DOMAIN channel_results) - success_count,
         channel_results |-> channel_results]

GatherInit ==
    /\ chanList \in SeqsUpTo(AllChannels, MaxChannels)
    /\ listCircuit = [n \in NamesOf(chanList) |-> NewCircuit]
    /\ gpc = "idle"
    /\ sendPc = [i \in DOMAIN chanList |-> "none"]
    /\ listResult = NoResult
    /\ listCalls = 0

GatherQuiet ==
    /\ chanList = <<>>
    /\ listCircuit = <<>>
    /\ gpc = "idle"
    /\ sendPc = <<>>
    /\ listResult = NoResult
    /\ listCalls = 0

\* dispatch() up to asyncio.gather: with no channel it returns at once,
\* otherwise one _send_to_channel coroutine per channel object is scheduled
ListDispatchCall ==
    /\ gpc # "gather"
    /\ listCalls < MaxListCalls
    /\ \A i \in DOMAIN chanList : sendPc[i] \notin {"ready", "sending"}
    /\ listCalls' = listCalls + 1
    /\ IF chanList = <<>>
       THEN /\ listResult' = [success_count |-> 0, failure_count |-> 0,
                              channel_results |-> <<>>]
            /\ gpc' = "returned"
            /\ UNCHANGED sendPc
       ELSE /\ gpc' = "gather"
            /\ sendPc' = [i \in DOMAIN chanList |-> "ready"]
            /\ UNCHANGED listResult
    /\ UNCHANGED <<now, chanList, listCircuit>>
    /\ UNCHANGED gatherOthers

\* _send_to_channel of the i-th channel up to its await
ListSendBegin(i) ==
    /\ i \in DOMAIN chanList
    /\ sendPc[i] = "ready"
    /\ sendPc' = [sendPc EXCEPT ![i] =
                     IF ShouldAttempt(listCircuit[chanList[i]], now)
                     THEN "sending" ELSE "skipped"]
    /\ UNCHANGED <<now, chanList, listCircuit, gpc, listResult, listCalls>>
    /\ UNCHANGED gatherOthers

\* _send_to_channel of the i-th channel after its await: True records a
\* success, False and an Exception record a failure and give (name, False);
\* a BaseException leaves _send_to_channel
ListSendEnds(i, outcome) ==
    /\ i \in DOMAIN chanList
    /\ sendPc[i] = "sending"
    /\ CASE outcome = "True" ->
              /\ listCircuit' = [listCircuit EXCEPT ![chanList[i]] = RecordSuccess(@)]
              /\ sendPc' = [sendPc EXCEPT ![i] = "ok"]
         [] outcome \in {"False", "Exception"} ->
              /\ listCircuit' = [listCircuit EXCEPT ![chanList[i]] = RecordFailure(@, now)]
              /\ sendPc' = [sendPc EXCEPT ![i] = "failed"]
         [] OTHER ->
              /\ sendPc' = [sendPc EXCEPT ![i] = "raised"]
              /\ UNCHANGED listCircuit
    /\ UNCHANGED <<now, chanList, gpc, listResult, listCalls>>
    /\ UNCHANGED gatherOthers

\* dispatch() after asyncio.gather returned the pairs: aggregate and return
ListDispatchReturn ==
    /\ gpc = "gather"
    /\ \A i \in DOMAIN chanList : sendPc[i] \in {"ok", "failed", "skipped"}
    /\ listResult' = ListResult(chanList, sendPc)
    /\ gpc' = "returned"
    /\ UNCHANGED <<now, chanList, listCircuit, sendPc, listCalls>>
    /\ UNCHANGED gatherOthers

\* asyncio.gather (return_exceptions is False) hands the first exception of
\* a coroutine to dispatch(), which does not catch it
ListDispatchRaises ==
    /\ gpc = "gather"
    /\ \E i \in DOMAIN chanList : sendPc[i] = "raised"
    /\ gpc' = "raised"
    /\ UNCHANGED <<now, chanList, listCircuit, sendPc, listResult, listCalls>>
    /\ UNCHANGED gatherOthers

\* the wall clock advances
GatherTick ==
    /\ now < GatherMaxTime
    /\ now' = now + 1
    /\ UNCHANGED <<chanList, listCircuit, gpc, sendPc, listResult, listCalls>>
    /\ UNCHANGED gatherOthers

GatherNext ==
    \/ ListDispatchCall
    \/ \E i \in 1..MaxChannels : ListSendBegin(i)
    \/ \E i \in 1..MaxChannels, outcome \in SendOutcomes : ListSendEnds(i, outcome)
    \/ ListDispatchReturn
    \/ ListDispatchRaises
    \/ GatherTick

(***************************************************************************)
(* ingestor/publisher.py: the stream form of a TradeEvent                  *)
(***************************************************************************)

\* Text is a sequence of characters. A Decimal is its sign, its coefficient
\* (the digits, no leading zero) and its exponent, or a NaN or an Infinity.
\* The exponents run from -MaxScale to MaxExp.
MaxScale == 8
MaxExp == 2

DigitChars == <<"0", "1", "2", "3", "4", "5", "6", "7", "8", "9">>

DigitValue(c) == CHOOSE d \in 0..9 : DigitChars[d + 1] = c

\* str(n) of an int n >= 0
RECURSIVE NatToChars(_)
NatToChars(n) ==
    IF n < 10 THEN <<DigitChars[n + 1]>>
    ELSE Append(NatToChars(n \div 10), DigitChars[(n % 10) + 1])

\* str(n) of an int
IntToChars(n) == IF n < 0 THEN <<"-">> \o NatToChars(-n) ELSE NatToChars(n)

\* "%+d" % n
SignedToChars(n) == IF n < 0 THEN <<"-">> \o NatToChars(-n) ELSE <<"+">> \o NatToChars(n)

RECURSIVE CharsToNat(_)
CharsToNat(s) ==
    IF s = <<>> THEN 0
    ELSE CharsToNat(SubSeq(s, 1, Len(s) - 1)) * 10 + DigitValue(s[Len(s)])

\* int(text) of a decimal literal with an optional sign
CharsToInt(s) ==
    IF s # <<>> /\ s[1] = "-" THEN -CharsToNat(Tail(s))
    ELSE IF s # <<>> /\ s[1] = "+" THEN CharsToNat(Tail(s))
    ELSE CharsToNat(s)

\* The first position of the character c in s, 0 when there is none
IndexOf(s, c) ==
    IF \E i \in DOMAIN s : s[i] = c
    THEN CHOOSE i \in DOMAIN s : s[i] = c /\ \A k \in 1..(i - 1) : s[k] # c
    ELSE 0

Zeros(n) == [i \in 1..n |-> "0"]

\* str(int(digits)): the leading zeros go
RECURSIVE StripLeadingZeros(_)
StripLeadingZeros(s) ==
    IF Len(s) > 1 /\ s[1] = "0" THEN StripLeadingZeros(Tail(s)) ELSE s

RECURSIVE StripTrailingZeros(_)
StripTrailingZeros(d) ==
    IF d.kind = "finite" /\ Len(d.int) > 1 /\ d.int[Len(d.int)] = "0"
    THEN StripTrailingZeros([d EXCEPT !.int = SubSeq(d.int, 1, Len(d.int) - 1),
                                      !.exp = d.exp + 1])
    ELSE d

NaNChars == <<"N", "a", "N">>
InfinityChars == <<"I", "n", "f", "i", "n", "i", "t", "y">>

\* The text of a Decimal: plain notation when the exponent is not positive
\* and the number is not too small, scientific notation otherwise
DecimalChars(d) ==
    LET sign == IF d.sign = 1 THEN <<"-">> ELSE <<>>
        n == Len(d.int)
        leftdigits == d.exp + n
        dotplace == IF d.exp <= 0 /\ leftdigits > -6 THEN leftdigits ELSE 1
        intpart == IF dotplace <= 0 THEN <<"0">>
                   ELSE IF dotplace >= n THEN d.int \o Zeros(dotplace - n)
                   ELSE SubSeq(d.int, 1, dotplace)
        fracpart == IF dotplace <= 0 THEN <<".">> \o Zeros(-dotplace) \o d.int
                    ELSE IF dotplace >= n THEN <<>>
                    ELSE <<".">> \o SubSeq(d.int, dotplace + 1, n)
        exp == IF leftdigits = dotplace THEN <<>>
               ELSE <<"E">> \o SignedToChars(leftdigits - dotplace)
    IN  IF d.kind = "NaN" THEN sign \o NaNChars
        ELSE IF d.kind = "Infinity" THEN sign \o InfinityChars
        ELSE sign \o intpart \o fracpart \o exp

\* A str(event.price) that drops the trailing zeros of the coefficient
DecimalToStrNormalized(d) == DecimalChars(StripTrailingZeros(d))

\* str(event.price), str(event.size)
DecimalToStr(d) == DecimalChars(d)

\* Decimal(text) of publisher.py: sign, digits, fraction and exponent of the
\* literal, or NaN, or Infinity
DecimalFromStr(s) ==
    LET negative == s # <<>> /\ s[1] = "-"
        body == IF negative THEN Tail(s) ELSE s
        epos == IndexOf(body, "E")
        mantissa == IF epos = 0 THEN body ELSE SubSeq(body, 1, epos - 1)
        exptext == IF epos = 0 THEN <<"0">> ELSE SubSeq(body, epos + 1, Len(body))
        dpos == IndexOf(mantissa, ".")
        intpart == IF dpos = 0 THEN mantissa ELSE SubSeq(mantissa, 1, dpos - 1)
        fracpart == IF dpos = 0 THEN <<>> ELSE SubSeq(mantissa, dpos + 1, Len(mantissa))
        sign == IF negative THEN 1 ELSE 0
    IN  IF body = NaNChars THEN [kind |-> "NaN", sign |-> sign, int |-> <<"0">>, exp |-> 0]
        ELSE IF body = InfinityChars
        THEN [kind |-> "Infinity", sign |-> sign, int |-> <<"0">>, exp |-> 0]
        ELSE [kind |-> "finite", sign |-> sign,
              int |-> StripLeadingZeros(intpart \o fracpart),
              exp |-> CharsToInt(exptext) - Len(fracpart)]

\* a == b of two Decimals: by value, and a NaN equals nothing
DecimalEq(a, b) ==
    /\ a.kind # "NaN"
    /\ b.kind # "NaN"
    /\ StripTrailingZeros(a).kind = StripTrailingZeros(b).kind
    /\ IF a.kind = "finite" /\ a.int = <<"0">>
       THEN b.kind = "finite" /\ StripTrailingZeros(b).int = <<"0">>
       ELSE /\ StripTrailingZeros(a).sign = StripTrailingZeros(b).sign
            /\ StripTrailingZeros(a).int = StripTrailingZeros(b).int
            /\ StripTrailingZeros(a).exp = StripTrailingZeros(b).exp

\* datetime.isoformat(): the date and time to the second, the microseconds
\* when there are any, the UTC offset of an aware datetime
IsoFormat(ts) ==
    [seconds |-> NatToChars(ts.seconds),
     fraction |-> IF ts.microsecond = 0 THEN <<>>
                  ELSE <<".">> \o Zeros(6 - Len(NatToChars(ts.microsecond)))
                             \o NatToChars(ts.microsecond),
     offset |-> IF ts.aware THEN "+00:00" ELSE ""]

\* datetime.fromisoformat(text)
FromIsoFormat(t) ==
    [seconds |-> CharsToNat(t.seconds),
     microsecond |-> IF t.fraction = <<>> THEN 0 ELSE CharsToNat(Tail(t.fraction)),
     aware |-> t.offset # ""]

FiniteDecimals ==
    [kind : {"finite"}, sign : {0, 1},
     int : {<<"0">>, <<"5">>, <<"5", "0">>, <<"1", "2", "5">>},
     exp : (-MaxScale)..MaxExp]

SpecialDecimals ==
    [kind : {"NaN", "Infinity"}, sign : {0, 1}, int : {<<"0">>}, exp : {0}]

Timestamps == [seconds : {0, 1700}, microsecond : {0, 5}, aware : BOOLEAN]

\* The TradeEvents serialized: every price; some sizes; the text fields are
\* copied unchanged by both functions and two of them stand for all
TradeEvents ==
    [market_id : {"0xm"}, side : {"BUY", "SELL"}, outcome_index : {-1, 0, 12},
     price : FiniteDecimals \cup SpecialDecimals,
     size : {d \in FiniteDecimals \cup SpecialDecimals :
                d.sign = 0 /\ d.int \in {<<"0">>, <<"5", "0">>} /\ d.exp \in {-1, 0}},
     timestamp : Timestamps, trader_name : {""}]

NoTrade == [market_id |-> "none"]
NoWire == [market_id |-> "none"]

\* _serialize_trade_event
SerializeTradeEvent(event) ==
    [market_id |-> event.market_id,
     side |-> event.side,
     outcome_index |-> IntToChars(event.outcome_index),
     price |-> DecimalToStr(event.price),
     size |-> DecimalToStr(event.size),
     timestamp |-> IsoFormat(event.timestamp),
     trader_name |-> event.trader_name]

\* _deserialize_trade_event
DeserializeTradeEvent(data) ==
    [market_id |-> data.market_id,
     side |-> IF data.side = "BUY" THEN "BUY" ELSE "SELL",
     outcome_index |-> CharsToInt(data.outcome_index),
     price |-> DecimalFromStr(data.price),
     size |-> DecimalFromStr(data.size),
     timestamp |-> FromIsoFormat(data.timestamp),
     trader_name |-> data.trader_name]

\* event == other of the TradeEvent dataclass: field by field
TradeEventEq(a, b) ==
    /\ a.market_id = b.market_id
    /\ a.side = b.side
    /\ a.outcome_index = b.outcome_index
    /\ DecimalEq(a.price, b.price)
    /\ DecimalEq(a.size, b.size)
    /\ a.timestamp = b.timestamp
    /\ a.trader_name = b.trader_name

CodecInit ==
    /\ original \in TradeEvents
    /\ wire = NoWire
    /\ decoded = NoTrade

CodecQuiet ==
    /\ original = NoTrade
    /\ wire = NoWire
    /\ decoded = NoTrade

\* publish: the event is serialized into the stream entry
SerializeEvent ==
    /\ original # NoTrade
    /\ wire = NoWire
    /\ wire' = SerializeTradeEvent(original)
    /\ UNCHANGED <<original, decoded>>
    /\ UNCHANGED codecOthers

\* read_events: the entry is deserialized
DeserializeEvent ==
    /\ wire # NoWire
    /\ decoded = NoTrade
    /\ decoded' = DeserializeTradeEvent(wire)
    /\ UNCHANGED <<original, wire>>
    /\ UNCHANGED codecOthers

CodecNext ==
    \/ SerializeEvent
    \/ DeserializeEvent

(***************************************************************************)
(* profiler/funding.py: the first USDC transfer into an address            *)
(***************************************************************************)

\* Blocks of the chain and Transfer logs per token contract, at most
MaxBlock == 3
MaxLogs == 2

\* FundingTracer._usdc_addresses, in the order of the list
UsdcAddresses == <<"USDC_BRIDGED", "USDC_NATIVE">>

TransferLogs == [from_address : {"a", "b"}, block_number : 1..MaxBlock]

NoTransfer == [from_address |-> "", block_number |-> 0]

\* What eth.get_logs returns for one contract: its Transfer logs to the
\* address in the order of the chain
OrderedLogs ==
    {q \in SeqsUpTo(TransferLogs, MaxLogs) :
        \A i \in 1..(Len(q) - 1) : q[i].block_number <= q[i + 1].block_number}

\* _get_first_token_transfer once _get_transfer_logs is over: None when it
\* raised or found nothing, else the first log
GetFirstTokenTransfer(raised, logs) ==
    IF raised \/ logs = <<>> THEN NoTransfer ELSE logs[1]

UsdcInit ==
    /\ tokenLogs \in [DOMAIN UsdcAddresses -> OrderedLogs]
    /\ usdcPc = "idle"
    /\ usdcPos = 1
    /\ firstTransfer = NoTransfer
    /\ logsRaised = FALSE

UsdcQuiet ==
    /\ tokenLogs = <<>>
    /\ usdcPc = "idle"
    /\ usdcPos = 1
    /\ firstTransfer = NoTransfer
    /\ logsRaised = FALSE

\* get_first_usdc_transfer is called by a hop of trace
GetFirstUsdcTransfer ==
    /\ usdcPc = "idle"
    /\ usdcPc' = "loop"
    /\ usdcPos' = 1
    /\ UNCHANGED <<tokenLogs, firstTransfer, logsRaised>>
    /\ UNCHANGED usdcOthers

\* One turn of its loop over the contracts: the first contract with a
\* transfer ends the loop
QueryToken(raised) ==
    /\ usdcPc = "loop"
    /\ usdcPos <= Len(UsdcAddresses)
    /\ LET transfer == GetFirstTokenTransfer(raised, tokenLogs[usdcPos])
       IN  IF transfer # NoTransfer
           THEN /\ firstTransfer' = transfer
                /\ usdcPc' = "returned"
                /\ UNCHANGED usdcPos
           ELSE /\ usdcPos' = usdcPos + 1
                /\ UNCHANGED <<firstTransfer, usdcPc>>
    /\ logsRaised' = (logsRaised \/ raised)
    /\ UNCHANGED tokenLogs
    /\ UNCHANGED usdcOthers

\* The loop is over without a transfer: return None
ReturnNoTransfer ==
    /\ usdcPc = "loop"
    /\ usdcPos > Len(UsdcAddresses)
    /\ usdcPc' = "returned"
    /\ firstTransfer' = NoTransfer
    /\ UNCHANGED <<tokenLogs, usdcPos, logsRaised>>
    /\ UNCHANGED usdcOthers

UsdcNext ==
    \/ GetFirstUsdcTransfer
    \/ \E raised \in BOOLEAN : QueryToken(raised)
    \/ ReturnNoTransfer

(***************************************************************************)
(* detector/sniper.py: the id of a detected cluster                        *)
(***************************************************************************)

\* Cluster ids made (uuid4 gives a new one each time), at most
MaxClusterIds == 3

ClusterMembers == {"w1", "w2", "w3", "w4"}

NoClusterId == 0

\* existing_clusters of _get_or_create_cluster_id: how many of the wallets
\* the map puts into the cluster id
ExistingCount(map, wallets, id) ==
    Cardinality({w \in wallets : map[w] = id})

\* The ids _get_or_create_cluster_id may return: a best existing cluster
\* (max takes one of the largest counts, in the order the set is iterated)
\* when its count reaches len(wallets) // 2, else a new id
ClusterIdChoices(map, wallets, fresh) ==
    LET existing == {map[w] : w \in {v \in wallets : map[v] # NoClusterId}}
        best == {id \in existing :
                    \A other \in existing :
                        ExistingCount(map, wallets, other) <= ExistingCount(map, wallets, id)}
    IN  IF existing # {}
           /\ \E id \in best :
                 ExistingCount(map, wallets, id) >= Cardinality(wallets) \div 2
        THEN best
        ELSE {fresh}

NoAssign == [wallets |-> {}, cluster_id |-> NoClusterId, before |-> <<>>]

ClusterIdInit ==
    /\ wallet_cluster_map = [w \in ClusterMembers |-> NoClusterId]
    /\ idsMade = 0
    /\ lastAssign = NoAssign

ClusterIdQuiet == ClusterIdInit

\* _process_clustering_results on one cluster of at least min_cluster_size
\* wallets: its id is found or made, and its wallets are mapped to the id
ProcessCluster(wallets) ==
    /\ Cardinality(wallets) >= MinClusterSize
    /\ \E id \in ClusterIdChoices(wallet_cluster_map, wallets, idsMade + 1) :
          /\ id <= MaxClusterIds
          /\ idsMade' = IF id = idsMade + 1 THEN idsMade + 1 ELSE idsMade
          /\ wallet_cluster_map' =
                [w \in ClusterMembers |->
                    IF w \in wallets THEN id ELSE wallet_cluster_map[w]]
          /\ lastAssign' = [wallets |-> wallets, cluster_id |-> id,
                            before |-> wallet_cluster_map]
    /\ UNCHANGED clusteridOthers

ClusterIdNext ==
    \E wallets \in SUBSET ClusterMembers : ProcessCluster(wallets)

(***************************************************************************)
(* ingestor/clob_client.py: RateLimiter.acquire_sync                       *)
(***************************************************************************)

\* 1 / max_requests_per_second in time units, the REST requests made and
\* the last instant of the clock
ClobMinInterval == 2
MaxRequests == 3
ClobMaxTime == 3

\* The worker threads of asyncio.to_thread: the catalog sync (get_markets)
\* and a cache-miss lookup (get_market)
ClobThreads == {"sync", "lookup"}

\* wait_time of acquire_sync at the instant t, 0 when there is no sleep
SyncWaitTime(last, t) ==
    IF t - last < ClobMinInterval THEN ClobMinInterval - (t - last) ELSE 0

ClobInit ==
    /\ last_request_time = -ClobMinInterval
    /\ clobPc = [t \in ClobThreads |-> "idle"]
    /\ clobWake = [t \in ClobThreads |-> 0]
    /\ requestTimes = <<>>

ClobQuiet == ClobInit

\* acquire_sync up to its sleep: now and _last_request_time are read, the
\* thread sleeps wait_time or goes on
AcquireSyncRead(t) ==
    /\ clobPc[t] = "idle"
    /\ Len(requestTimes) + Cardinality({u \in ClobThreads : clobPc[u] # "idle"}) < MaxRequests
    /\ LET wait_time == SyncWaitTime(last_request_time, now)
       IN  IF wait_time > 0
           THEN /\ clobPc' = [clobPc EXCEPT ![t] = "sleeping"]
                /\ clobWake' = [clobWake EXCEPT ![t] = now + wait_time]
           ELSE /\ clobPc' = [clobPc EXCEPT ![t] = "stamp"]
                /\ UNCHANGED clobWake
    /\ UNCHANGED <<now, last_request_time, requestTimes>>
    /\ UNCHANGED clobOthers

\* time.sleep(wait_time) is over
AcquireSyncWake(t) ==
    /\ clobPc[t] = "sleeping"
    /\ now >= clobWake[t]
    /\ clobPc' = [clobPc EXCEPT ![t] = "stamp"]
    /\ UNCHANGED <<now, last_request_time, clobWake, requestTimes>>
    /\ UNCHANGED clobOthers

\* acquire_sync stores the instant and returns; the REST request starts
AcquireSyncStamp(t) ==
    /\ clobPc[t] = "stamp"
    /\ last_request_time' = now
    /\ requestTimes' = Append(requestTimes, now)
    /\ clobPc' = [clobPc EXCEPT ![t] = "idle"]
    /\ UNCHANGED <<now, clobWake>>
    /\ UNCHANGED clobOthers

\* time passes
ClobTick ==
    /\ now < ClobMaxTime
    /\ now' = now + 1
    /\ UNCHANGED <<last_request_time, clobPc, clobWake, requestTimes>>
    /\ UNCHANGED clobOthers

ClobNext ==
    \/ \E t \in ClobThreads : AcquireSyncRead(t)
    \/ \E t \in ClobThreads : AcquireSyncWake(t)
    \/ \E t \in ClobThreads : AcquireSyncStamp(t)
    \/ ClobTick

(***************************************************************************)
(* profiler/chain.py: get_transaction_counts                               *)
(***************************************************************************)

\* The largest transaction count the chain reports
MaxTxCount == 2

\* The addresses of a batch, as the caller writes them (checksum case)
NonceAddresses == {"0xA", "0xB"}

\* address.lower()
LowerAddr(a) == IF a = "0xA" THEN "0xa" ELSE "0xb"

\* _cache_key("nonce", address): the key is made of the lowered address
NonceCacheKey(a) == LowerAddr(a)

NonceKeys == {NonceCacheKey(a) : a \in NonceAddresses}

\* None for a cache miss
NoCount == -1

\* The value the batch call stores for a task that ended in an exception
FailedCount == 0

\* One entry of the gather: the task is pending, raised, or returned a count
NonceTask(status, count) == [status |-> status, count |-> count]

\* results[key] = value on a dict
DictSet(d, k, v) == [x \in DOMAIN d \cup {k} |-> IF x = k THEN v ELSE d[x]]

\* A client on an empty cache
NonceInit ==
    /\ nonceCache = [k \in NonceKeys |-> NoCount]
    /\ noncePc = "idle"
    /\ nonceAddrs = {}
    /\ nonceTasks = <<>>
    /\ nonceResults = <<>>

NonceQuiet == NonceInit

\* get_transaction_counts up to the gather: an empty batch returns {}; the
\* cached addresses are entered in the results, one task is made for each
\* of the others
GetTransactionCounts(addresses) ==
    /\ noncePc = "idle"
    /\ LET cached == {a \in addresses : nonceCache[NonceCacheKey(a)] # NoCount}
           uncached == addresses \ cached
       IN  /\ nonceResults' = [k \in {LowerAddr(a) : a \in cached} |-> nonceCache[k]]
           /\ nonceTasks' = [a \in uncached |-> NonceTask("pending", NoCount)]
           /\ noncePc' = IF uncached = {} THEN "done" ELSE "gather"
    /\ nonceAddrs' = addresses
    /\ UNCHANGED nonceCache
    /\ UNCHANGED nonceOthers

\* get_transaction_count of one task obtains the count and caches it
NonceTaskSucceeds(a, count) ==
    /\ noncePc = "gather"
    /\ a \in DOMAIN nonceTasks
    /\ nonceTasks[a].status = "pending"
    /\ nonceTasks' = [nonceTasks EXCEPT ![a] = NonceTask("returned", count)]
    /\ nonceCache' = [nonceCache EXCEPT ![NonceCacheKey(a)] = count]
    /\ UNCHANGED <<noncePc, nonceAddrs, nonceResults>>
    /\ UNCHANGED nonceOthers

\* get_transaction_count of one task raises (RPCError, a bad address)
NonceTaskFails(a) ==
    /\ noncePc = "gather"
    /\ a \in DOMAIN nonceTasks
    /\ nonceTasks[a].status = "pending"
    /\ nonceTasks' = [nonceTasks EXCEPT ![a] = NonceTask("failed", NoCount)]
    /\ UNCHANGED <<nonceCache, noncePc, nonceAddrs, nonceResults>>
    /\ UNCHANGED nonceOthers

\* The results after the loop over zip(uncached, counts)
RECURSIVE CollectCounts(_, _, _)
CollectCounts(results, tasks, todo) ==
    IF todo = {} THEN results
    ELSE LET a == CHOOSE x \in todo : TRUE
             v == IF tasks[a].status = "failed" THEN FailedCount ELSE tasks[a].count
         IN  CollectCounts(DictSet(results, LowerAddr(a), v), tasks, todo \ {a})

\* the gather is over: every task's outcome is entered in the results and
\* the map is returned
NonceGatherReturns ==
    /\ noncePc = "gather"
    /\ \A a \in DOMAIN nonceTasks : nonceTasks[a].status # "pending"
    /\ nonceResults' = CollectCounts(nonceResults, nonceTasks, DOMAIN nonceTasks)
    /\ noncePc' = "done"
    /\ UNCHANGED <<nonceCache, nonceAddrs, nonceTasks>>
    /\ UNCHANGED nonceOthers

\* the caller has the map; the client is ready for the next batch
NonceNextBatch ==
    /\ noncePc = "done"
    /\ noncePc' = "idle"
    /\ nonceAddrs' = {}
    /\ nonceTasks' = <<>>
    /\ nonceResults' = <<>>
    /\ UNCHANGED nonceCache
    /\ UNCHANGED nonceOthers

NonceNext ==
    \/ \E addresses \in SUBSET NonceAddresses : GetTransactionCounts(addresses)
    \/ \E a \in NonceAddresses, count \in 0..MaxTxCount : NonceTaskSucceeds(a, count)
    \/ \E a \in NonceAddresses : NonceTaskFails(a)
    \/ NonceGatherReturns
    \/ NonceNextBatch

(***************************************************************************)
(* Specifications: one per component; the others are held quiet.           *)
(***************************************************************************)

QuietBut(x) ==
    /\ now = 0
    /\ IF x = "dispatch" THEN TRUE ELSE DispQuiet
    /\ IF x = "scorer" THEN TRUE ELSE ScorerQuiet
    /\ IF x = "rate" THEN TRUE ELSE RateQuiet
    /\ IF x = "stream" THEN TRUE ELSE StreamQuiet
    /\ IF x = "ws" THEN TRUE ELSE WsQuiet
    /\ IF x = "chain" THEN TRUE ELSE ChainQuiet
    /\ IF x = "feed" THEN TRUE ELSE FeedQuiet
    /\ IF x = "analyzer" THEN TRUE ELSE AnalyzerQuiet
    /\ IF x = "fund" THEN TRUE ELSE FundQuiet
    /\ IF x = "sniper" THEN TRUE ELSE SniperQuiet
    /\ IF x = "hist" THEN TRUE ELSE HistQuiet
    /\ IF x = "msync" THEN TRUE ELSE MsyncQuiet
    /\ IF x = "health" THEN TRUE ELSE HealthQuiet
    /\ IF x = "shutdown" THEN TRUE ELSE ShutdownQuiet
    /\ IF x = "gather" THEN TRUE ELSE GatherQuiet
    /\ IF x = "codec" THEN TRUE ELSE CodecQuiet
    /\ IF x = "usdc" THEN TRUE ELSE UsdcQuiet
    /\ IF x = "clusterid" THEN TRUE ELSE ClusterIdQuiet
    /\ IF x = "clob" THEN TRUE ELSE ClobQuiet
    /\ IF x = "nonce" THEN TRUE ELSE NonceQuiet

InitDispatch == QuietBut("dispatch") /\ DispInit

SpecDispatch == InitDispatch /\ [][DispNext]_vars

\* Dispatches keep being issued, the event loop resumes every coroutine,
\* a send to a service that is up returns, and time passes. A service may
\* stay down, and nobody has to call reset_circuit.
DispFairness ==
    /\ WF_vars(\E d \in Calls : DispatchCall(d))
    /\ WF_vars(\E d \in Calls, c \in channels : SendBegin(d, c))
    /\ WF_vars(\E d \in Calls, c \in channels : SendSucceeds(d, c))
    /\ WF_vars(\E d \in Calls : DispatchReturn(d))
    /\ WF_vars(DispTick)

SpecDispatchFair == InitDispatch /\ [][DispNext]_vars /\ DispFairness

InitScorer == QuietBut("scorer") /\ ScorerInit

SpecScorer == InitScorer /\ [][ScorerNext]_vars

InitRate == QuietBut("rate") /\ RateInit

SpecRate == InitRate /\ [][RateNext]_vars

InitStream == QuietBut("stream") /\ StreamInit

SpecStream == InitStream /\ [][StreamNext]_vars

\* A consumer whose process is up keeps reading and acknowledges what it
\* holds; time passes. Crashes and restarts may or may not happen.
StreamFairness ==
    /\ WF_vars(StreamTick)
    /\ \A c \in Consumers :
         /\ WF_vars(ReadEvents(c))
         /\ WF_vars(ReadPending(c))
         /\ WF_vars(\E e \in EntryIds : Ack(c, e))

SpecStreamFair == InitStream /\ [][StreamNext]_vars /\ StreamFairness

InitWs == QuietBut("ws") /\ WsInit

SpecWs == InitWs /\ [][WsNext]_vars

\* The event loop resumes a coroutine whose await is over: connects end
\* (either way), sleeps end, a closed socket ends _listen, close() returns.
\* Calls of start() and stop() and the server's closes may or may not happen.
WsFairness ==
    /\ WF_vars(StartSteps)
    /\ WF_vars(StopCleanupDone)

SpecWsFair == InitWs /\ [][WsNext]_vars /\ WsFairness

InitChain == QuietBut("chain") /\ ChainInit

SpecChain == InitChain /\ [][ChainNext]_vars

InitFeed == QuietBut("feed") /\ FeedInit

SpecFeed == InitFeed /\ [][FeedNext]_vars

InitAnalyzer == QuietBut("analyzer") /\ AnalyzerInit

SpecAnalyzer == InitAnalyzer /\ [][AnalyzerNext]_vars

InitFund == QuietBut("fund") /\ FundInit

SpecFund == InitFund /\ [][FundNext]_vars

InitSniper == QuietBut("sniper") /\ SniperInit

SpecSniper == InitSniper /\ [][SniperNext]_vars

InitHist == QuietBut("hist") /\ HistInit

SpecHist == InitHist /\ [][HistNext]_vars

InitMsync == QuietBut("msync") /\ MsyncInit

SpecMsync == InitMsync /\ [][MsyncNext]_vars

InitHealth == QuietBut("health") /\ HealthInit

SpecHealth == InitHealth /\ [][HealthNext]_vars

InitShutdown == QuietBut("shutdown") /\ ShutdownInit

SpecShutdown == InitShutdown /\ [][ShutdownNext]_vars

InitGather == QuietBut("gather") /\ GatherInit

SpecGather == InitGather /\ [][GatherNext]_vars

InitCodec == QuietBut("codec") /\ CodecInit

SpecCodec == InitCodec /\ [][CodecNext]_vars

InitUsdc == QuietBut("usdc") /\ UsdcInit

SpecUsdc == InitUsdc /\ [][UsdcNext]_vars

InitClusterId == QuietBut("clusterid") /\ ClusterIdInit

SpecClusterId == InitClusterId /\ [][ClusterIdNext]_vars

InitClob == QuietBut("clob") /\ ClobInit

SpecClob == InitClob /\ [][ClobNext]_vars

InitNonce == QuietBut("nonce") /\ NonceInit

SpecNonce == InitNonce /\ [][NonceNext]_vars

(***************************************************************************)
(* Claims on the dispatcher                                                *)
(***************************************************************************)

\* C1: a channel's circuit is closed right after any successful send to it,
\* and it goes from closed to open only in a step after which at least
\* failure_threshold sends to it have failed in a row (no success, no reset
\* in between) while it was closed.
C1_CircuitClosesAndOpens ==
    [][\A c \in channels :
         /\ (\E d \in Calls : spc[d][c] = "sending" /\ spc'[d][c] = "ok")
               => ~circuit'[c].is_open
         /\ (~circuit[c].is_open /\ circuit'[c].is_open)
               => closedFails'[c] >= FailureThreshold]_vars

\* C1 witness: a circuit that has just opened on its failure_threshold-th
\* consecutive failure.
C1_Witness ==
    \E c \in channels :
        /\ circuit[c].is_open
        /\ circuit[c].half_open_attempts = 0
        /\ closedFails[c] = FailureThreshold

\* The condition C2 states for a delivery attempt.
C2_MayAttempt(st, t) ==
    \/ ~st.is_open
    \/ /\ st.is_open
       /\ t - st.last_failure_time >= RecoveryTimeout
       /\ st.half_open_attempts < HalfOpenMax

\* C2: when _send_to_channel decides, the adapter is called if and only if
\* the circuit is closed, or open with recovery_timeout elapsed since the last
\* failure and fewer than half_open_max half-open attempts used; otherwise
\* the adapter is not called, and dispatch reports False for the channel.
C2_AttemptIffAllowed ==
    [][\A d \in Calls : \A c \in channels :
         /\ (spc[d][c] = "ready" /\ spc'[d][c] # "ready")
               => /\ spc'[d][c] \in {"sending", "skipped"}
                  /\ (spc'[d][c] = "sending") <=> C2_MayAttempt(circuit[c], now)
         /\ spc'[d][c] = "sending" => spc[d][c] \in {"ready", "sending"}
         /\ (spc[d][c] = "skipped" /\ dcall[d] = "gather" /\ dcall'[d] = "idle")
               => /\ lastResult'.channel_results[c] = FALSE
                  /\ lastResult'.failure_count >= 1]_vars

\* C2 witness: a dispatch skipped an open channel and reported it as failed,
\* and a later one is making the half-open attempt.
C2_Witness ==
    \E c \in channels : \E d \in Calls :
        /\ circuit[c].is_open
        /\ spc[d][c] = "sending"
        /\ openAttempts[c] = 1
        /\ lastResult # NoResult
        /\ lastResult.channel_results[c] = FALSE

\* C3: the attempts started on a channel between the opening of its circuit
\* and the next success or reset never exceed half_open_max, however many
\* dispatch calls run concurrently.
C3_HalfOpenAttemptsBounded ==
    \A c \in channels : openAttempts[c] <= HalfOpenMax

(***************************************************************************)
(* Claims on the scorer                                                    *)
(***************************************************************************)

\* Two assessments of the same wallet and market that met the threshold less
\* than dedup_window apart (the history is in order of time).
C4_Pair(i, j) ==
    /\ i < j
    /\ dedupLog[i].key = dedupLog[j].key
    /\ dedupLog[j].at - dedupLog[i].at < DedupWindow

\* C4 as stated: of any two assessments of the same wallet and market that
\* meet the threshold within dedup_window of each other, exactly one has
\* should_alert = true.
C4_ExactlyOneAlert ==
    \A i, j \in 1..Len(dedupLog) :
        C4_Pair(i, j) => (dedupLog[i].should_alert # dedupLog[j].should_alert)

\* C4 amended: of two such assessments with no clear_dedup of their key
\* between them at most one has should_alert = true, and exactly one, the
\* earlier, when no dedup entry of the key was there at the earlier one.
C4_AtMostOneAlert ==
    \A i, j \in 1..Len(dedupLog) :
        (C4_Pair(i, j) /\ dedupLog[i].epoch = dedupLog[j].epoch)
          => /\ ~(dedupLog[i].should_alert /\ dedupLog[j].should_alert)
             /\ ~dedupLog[i].had_entry
                  => (dedupLog[i].should_alert /\ ~dedupLog[j].should_alert)

\* C4 witness: two assessments of one wallet and market were in flight
\* together; the first to reach Redis alerted, the second was deduplicated.
C4_Witness ==
    /\ Len(dedupLog) = 2
    /\ C4_Pair(1, 2)
    /\ dedupLog[1].should_alert /\ ~dedupLog[2].should_alert
    /\ dedupLog[2].at = dedupLog[1].at
    /\ clears = [k \in DedupKeys |-> 0]

(***************************************************************************)
(* Claims on the channel adapters                                          *)
(***************************************************************************)

\* The POSTs among a set of log entries that fall into the window starting at w
PostsIn(idx, w) ==
    Cardinality({i \in idx : w <= httpLog[i].at /\ httpLog[i].at < w + RateWindow})

\* C5: whatever the arrival pattern of the send() calls, the HTTP requests
\* the adapter issues within any 60-second interval are at most
\* rate_limit_per_minute.
C5_RateLimitHolds ==
    \A w \in 0..RateMaxTime : PostsIn(1..Len(httpLog), w) <= RateLimit

\* C5 for the first attempt of each send() alone (no retry counted): the
\* limiter by itself does not keep the limit either.
C5_FirstAttemptsWithinLimit ==
    \A w \in 0..RateMaxTime :
        PostsIn({i \in 1..Len(httpLog) : httpLog[i].attempt = 0}, w) <= RateLimit

(***************************************************************************)
(* Claims on the Redis stream                                              *)
(***************************************************************************)

\* C6: once an entry has been acknowledged for the consumer group, no later
\* read_events or read_pending call by any consumer of the group returns it:
\* what a read returns holds no id that was acknowledged before the read.
C6_AckedNeverReturned ==
    lastRead.ids \cap lastRead.acked_before = {}

\* C6's case: after an acknowledgement, a read_pending call returns an
\* entry that is still pending, and not the acknowledged one.
C6_Witness ==
    /\ lastRead.call = "read_pending"
    /\ lastRead.acked_before # {}
    /\ lastRead.ids # {}

\* The timeout after which the specification makes a pending entry eligible
\* for redelivery (no such setting exists in the code).
PendingTimeout == 1

\* C7: an entry delivered to a consumer but not acknowledged is, once
\* pending_timeout has passed since its delivery, eventually delivered again
\* (or acknowledged) even if that consumer never reads again: with the
\* consumer down, the entry does not stay pending, undelivered, for as long
\* as the consumer stays down.
C7_RedeliveredAfterTimeout ==
    \A e \in EntryIds : \A c \in Consumers : \A k \in 1..(MaxDeliveries - 1) :
        (/\ pel[e].owner = c
         /\ crashed[c]
         /\ pel[e].count = k
         /\ now - pel[e].at >= PendingTimeout)
        ~> (~Pending(pel, e) \/ pel[e].count > k \/ ~crashed[c])

\* C8: an entry that cannot be decoded does not remain in the group's
\* pending set indefinitely: while the consumer it was delivered to stays up
\* and keeps reading, the entry eventually leaves the pending set.
C8_UndecodableLeavesPending ==
    \A e \in EntryIds : \A c \in Consumers :
        (/\ e <= Len(stream)
         /\ ~Decodes(stream[e])
         /\ pel[e].owner = c)
        ~> (~Pending(pel, e) \/ crashed[c])

(***************************************************************************)
(* Claims on the trade-stream connection                                   *)
(***************************************************************************)

\* The connection that _listen is reading is gone while the handler runs.
ConnectionLost ==
    /\ running
    /\ startPc = "listen"
    /\ listenSock # 0
    /\ sockets[listenSock] \in {"closed_ok", "closed_error"}

\* C9: while the handler is running (stop not called), every loss of the
\* connection, by an error or by a clean close of the server, is eventually
\* followed by a reconnection attempt, and after a failed attempt another
\* one follows, until one succeeds or stop is called.
C9_ReconnectsAfterLoss ==
    /\ [](ConnectionLost => <>(startPc = "connect_re" \/ ~running))
    /\ []((running /\ startPc = "sleep")
            => <>(startPc = "connect_re" \/ ~running))

\* The edges of the specification's state machine
SpecEdges ==
    {<<"DISCONNECTED", "CONNECTING">>, <<"CONNECTING", "CONNECTED">>,
     <<"CONNECTED", "DISCONNECTED">>, <<"DISCONNECTED", "RECONNECTING">>,
     <<"RECONNECTING", "CONNECTING">>}

ExtraEdges ==
    {<<"CONNECTING", "RECONNECTING">>, <<"CONNECTING", "DISCONNECTED">>,
     <<"RECONNECTING", "DISCONNECTED">>, <<"DISCONNECTED", "CONNECTED">>}

C11_StoppedStaysDisconnected ==
    stopReturned =>
        /\ wsState = "DISCONNECTED"
        /\ \A n \in SocketIds : sockets[n] # "open"

(***************************************************************************)
(* Claims on the chain client                                              *)
(***************************************************************************)

\* The requests call c has sent to endpoint ep, in order
CallLog(c, ep) == SelectSeq(rpcLog, LAMBDA r : r.call = c /\ r.ep = ep)

\* The sleep before attempt k: none, then the base delay, doubling
ExpectedSlept(k) == IF k = 0 THEN 0 ELSE ChainRetryDelay * Pow2(k - 1)

\* At most max_retries attempts, numbered in order, with those sleeps
RetrySequence(seq) ==
    /\ Len(seq) <= ChainMaxRetries
    /\ \A i \in 1..Len(seq) :
         /\ seq[i].attempt = i - 1
         /\ seq[i].slept = ExpectedSlept(i - 1)

SentIn(t1, t2) ==
    Cardinality({i \in 1..Len(rpcLog) : rpcLog[i].at >= t1 /\ rpcLog[i].at <= t2})

\* C13: every RPC request passes the token bucket, so the requests sent in
\* any interval never exceed the bucket capacity plus the tokens refilled in
\* that interval.
C13_RequestsWithinBucket ==
    \A t1 \in 0..ChainMaxTime : \A t2 \in t1..ChainMaxTime :
        SentIn(t1, t2) <= MaxRps + (t2 - t1) * MaxRps

\* C14: a request goes to the primary only while the client holds it
\* healthy, or from a call that passed the cooldown (more than the recovery
\* interval since the primary was marked unhealthy or last probed).
C14_NoPrimaryRequestInCooldown ==
    \A i \in 1..Len(rpcLog) :
        rpcLog[i].ep = "primary" => (rpcLog[i].healthy \/ rpcLog[i].probe)

(***************************************************************************)
(* Claims on the scorer's assessments                                      *)
(***************************************************************************)

\* C15: every assessment the scorer returns has its weighted_score in [0, 1],
\* for any signals with a confidence in [0, 1] and whatever weights are in
\* force (the defaults, the constructor's, or those set_weights installed).
C15_ScoreInUnitInterval ==
    /\ lastAssessment.weighted_score >= 0
    /\ lastAssessment.weighted_score <= ScoreCap

\* C16: an assessment has should_alert exactly when its weighted_score is at
\* least the alert threshold and no dedup entry for its wallet and market was
\* there when it was made; so should_alert implies the score meets the
\* threshold.
C16_AlertIffThresholdAndNoEntry ==
    lastAssessment # NoAssessment =>
        (lastAssessment.should_alert <=>
            (lastAssessment.weighted_score >= AlertThreshold /\ ~lastHadEntry))

\* An assessment that met the threshold was suppressed by the entry that an
\* earlier, alerting assessment of the same wallet and market had left.
C16_Witness ==
    /\ lastAssessment.weighted_score >= AlertThreshold
    /\ ~lastAssessment.should_alert
    /\ lastHadEntry
    /\ \E i \in 1..Len(dedupLog) :
          dedupLog[i].should_alert /\ dedupLog[i].key = lastAssessment.key

(***************************************************************************)
(* Claims on the trade frames                                              *)
(***************************************************************************)

\* C17: every TradeEvent decoded from a feed frame and handed to the trade
\* callback has a price between 0 and 1 and a size that is not negative;
\* a frame that breaks this is rejected or sanitized before delivery.
C17_DeliveredTradesInRange ==
    \A i \in 1..Len(delivered) :
        /\ delivered[i].price >= 0
        /\ delivered[i].price <= 100
        /\ delivered[i].size >= 0

(***************************************************************************)
(* Claims on the wallet profiles                                           *)
(***************************************************************************)

\* The profiles the analyzer has built: the last one returned and the
\* cached ones.
BuiltProfiles ==
    ({lastProfile} \cup {profileCache[w] : w \in Wallets}) \ {NoProfile}

C19_NotFreshAtExactly48 ==
    \A p \in BuiltProfiles :
        p.nonce < fresh_threshold =>
            /\ p.age_hours = AgeLimit => ~p.is_fresh
            /\ p.age_hours = AgeLimit - 1 => p.is_fresh

(***************************************************************************)
(* Claims on the funding trace                                             *)
(***************************************************************************)

\* C20: for any transfer graph, cycles included, trace makes at most
\* max_hops transfer lookups and then returns a chain whose hop_count is the
\* number of its transfers and at most the effective max_hops: the call's
\* override when one is given, else the configured value.
C20_TraceBounded ==
    LET effective == IF override_hops # NoOverride THEN override_hops ELSE max_hops
    IN  /\ tpc # "idle" => lookups <= effective
        /\ tpc = "done" =>
              /\ lastChain.hop_count = Len(lastChain.chain)
              /\ lastChain.chain = chain
              /\ lastChain.hop_count <= effective

\* A trace over a cycle of transfers has returned after as many hops as the
\* call's override allows, fewer than the configured max_hops.
C20_Witness ==
    /\ tpc = "done"
    /\ override_hops # NoOverride
    /\ override_hops < max_hops
    /\ lastChain.hop_count = override_hops
    /\ lastChain.hop_count > 0
    /\ lookups = override_hops
    /\ first_sender[lastChain.origin_address] # NoAddress
    /\ \E i \in 1..Len(chain) : chain[i].from_address = target

\* C21: whenever trace returns origin_type "unknown", the origin_address it
\* returns (the last address reached) is not a terminal entity of the
\* registry, for every starting address and every max_hops >= 0.
C21_UnknownOriginNotTerminal ==
    (tpc = "done" /\ lastChain.origin_type = "unknown") =>
        lastChain.origin_address \notin terminals

(***************************************************************************)
(* Claims on the sniper detector                                           *)
(***************************************************************************)

\* C22: over any sequence of record_entry and run_clustering calls a wallet
\* is signaled at most once, the first time it is found in a qualifying
\* cluster; a run on unchanged data emits no signal.
C22_SignaledAtMostOnce ==
    /\ \A w \in SniperWallets : signalCount[w] <= 1
    /\ \A w \in SniperWallets : signalCount[w] = 1 <=> w \in signaled_wallets
    /\ lastRerun => lastSignals = <<>>

\* Clustering was run again on unchanged data in which a signaled wallet is
\* in a qualifying cluster, and a wallet lies in both clusters.
C22_Witness ==
    /\ lastRerun
    /\ runs >= 2
    /\ Cardinality(signaled_wallets) >= 2
    /\ lastLabels # <<>>
    /\ \E w \in signaled_wallets :
          /\ w \in ClusterWallets(lastLabels, 0)
          /\ w \in ClusterWallets(lastLabels, 1)
          /\ Cardinality(ClusterWallets(lastLabels, 0)) >= MinClusterSize
          /\ Cardinality(ClusterWallets(lastLabels, 1)) >= MinClusterSize

(***************************************************************************)
(* Claims on the alert history                                             *)
(***************************************************************************)

\* C23: the alert-history dedup key is claimed atomically: of the workers
\* that run should_send and then record_sent for the same wallet, market
\* and hour, concurrently or not, at most one concludes that the alert
\* should be sent.
C23_AtMostOneSender ==
    \A i, j \in 1..Len(sendLog) :
        (/\ i # j
         /\ sendLog[i].key = sendLog[j].key
         /\ sendLog[i].hour = sendLog[j].hour)
        => ~(sendLog[i].should_send /\ sendLog[j].should_send)

(***************************************************************************)
(* Claims on the metadata sync                                             *)
(***************************************************************************)

\* C24: start() raises when its initial sync fails, and whenever start()
\* returns without raising the service has completed a successful sync and
\* has exactly one background sync task running.
C24_StartReturnsSynced ==
    /\ lastStart.sync_failed => lastStart.outcome = "raised"
    /\ lastStart.outcome = "returned" =>
          (lastStart.synced /\ lastStart.tasks = 1)

(***************************************************************************)
(* Claims on the health monitor                                            *)
(***************************************************************************)

\* C25: at each health check a stream that is not disconnected is STALE
\* exactly when more than stale_threshold has elapsed, while it was
\* connected, without it receiving an event; otherwise it is ACTIVE.
C25_StaleIffQuietWhileConnected ==
    lastReport # NoReport =>
        \A n \in StreamNames :
            lastReport.streams[n] \in {"ACTIVE", "STALE"} =>
                (lastReport.streams[n] = "STALE" <=>
                    (quietAtCheck[n] # NoTime /\ quietAtCheck[n] > StaleThreshold))

\* The three-way rule of the overall status, from the statuses of a report
C26_Expected(r) ==
    LET registered == {n \in StreamNames : r.streams[n] # "unregistered"}
        disconnected == {n \in registered : r.streams[n] = "DISCONNECTED"}
        stale == {n \in registered : r.streams[n] = "STALE"}
    IN  IF registered # {} /\ disconnected = registered THEN "UNHEALTHY"
        ELSE IF (disconnected # {} /\ disconnected # registered) \/ stale # {}
        THEN "DEGRADED"
        ELSE "HEALTHY"

\* C26: in every health report the global status is UNHEALTHY exactly when
\* at least one stream is registered and all streams are DISCONNECTED,
\* DEGRADED when some but not all are DISCONNECTED or any is STALE, and
\* HEALTHY otherwise.
C26_OverallStatus ==
    lastReport # NoReport => lastReport.status = C26_Expected(lastReport)

\* Reports of each kind are made: this one is DEGRADED with a stale stream
\* and no stream disconnected.
C26_Witness ==
    /\ lastReport.status = "DEGRADED"
    /\ \E n \in StreamNames : lastReport.streams[n] = "STALE"
    /\ \A n \in StreamNames : lastReport.streams[n] \in {"ACTIVE", "STALE"}

(***************************************************************************)
(* Claims on the graceful shutdown                                         *)
(***************************************************************************)

\* C27: the first shutdown signal received sets the shutdown flag and wakes
\* the waiters without exiting the process; a signal received after an
\* earlier signal forces the exit with code 128 + signum.
C27_FirstSignalGracefulSecondExits ==
    [][signalsReceived' = signalsReceived + 1 =>
         IF signalsReceived = 0
         THEN /\ exitCode' = NoExit
              /\ shutdown_requested'
              /\ ~force_exit_requested'
              /\ shutdown_event' = "set"
         ELSE /\ exitCode' = ForceExitCode(lastSignal')
              /\ force_exit_requested']_vars

\* C28: run_cleanup_callbacks invokes every registered cleanup callback
\* exactly once, in registration order, even when earlier callbacks raise,
\* and never raises itself.
C28_AllCallbacksRunNoRaise ==
    /\ cleanupPc # "raised"
    /\ cleanupPc = "returned" => invoked = cleanup_callbacks

(***************************************************************************)
(* Claims on dispatch over the channel list                                *)
(***************************************************************************)

\* C29: a failure of one channel, whether its send returns false or raises
\* any exception, never propagates out of dispatch and never prevents the
\* sends to the other channels: dispatch always returns a result holding one
\* boolean per configured channel.
C29_OneBooleanPerChannel ==
    /\ gpc # "raised"
    /\ gpc = "returned" =>
          Cardinality(DOMAIN listResult.channel_results) = Len(chanList)

\* C30: dispatch reports all_succeeded = true exactly when the channel list
\* is non-empty and the send to every configured channel succeeded; with an
\* empty channel list all_succeeded is false.
C30_AllSucceededIffEverySendOk ==
    gpc = "returned" =>
        (AllSucceeded(listResult) <=>
            (chanList # <<>> /\ \A i \in DOMAIN chanList : sendPc[i] = "ok"))

(***************************************************************************)
(* Claims on the stream form of a TradeEvent                               *)
(***************************************************************************)

C32_EarliestAcrossTokens ==
    (usdcPc = "returned" /\ firstTransfer # NoTransfer) =>
        \A t \in DOMAIN UsdcAddresses : \A i \in DOMAIN tokenLogs[t] :
            firstTransfer.block_number <= tokenLogs[t][i].block_number

(***************************************************************************)
(* Claims on the id of a detected cluster                                  *)
(***************************************************************************)

\* C33: a detected sniper cluster reuses an existing cluster id if and only
\* if at least half of its wallets already belong to that existing cluster;
\* otherwise it receives a fresh id.
C33_ReuseIffHalfBelong ==
    lastAssign # NoAssign =>
        LET known == {lastAssign.before[w] : w \in ClusterMembers} \ {NoClusterId}
            reused == lastAssign.cluster_id \in known
            halfBelong(id) ==
                2 * ExistingCount(lastAssign.before, lastAssign.wallets, id)
                    >= Cardinality(lastAssign.wallets)
        IN  /\ reused => halfBelong(lastAssign.cluster_id)
            /\ (\E id \in known : halfBelong(id)) => reused

(***************************************************************************)
(* Claims on the CLOB client's rate limiter                                *)
(***************************************************************************)

\* C34: any two REST requests issued through the CLOB client start at least
\* 1/requests_per_second apart, even when the catalog sync and a cache-miss
\* lookup run at the same time in different worker threads.
C34_RequestsSpaced ==
    \A i \in 1..(Len(requestTimes) - 1) :
        requestTimes[i + 1] - requestTimes[i] >= ClobMinInterval

(***************************************************************************)
(* Claims on the recovery of a circuit                                     *)
(***************************************************************************)

\* C35: if a channel becomes able to deliver again and dispatches keep
\* being issued, its circuit eventually closes without operator
\* intervention: a circuit never stays open forever solely because earlier
\* half-open attempts failed. Stated from the instant the recovery timeout
\* has elapsed on an open circuit whose service is up for good.
C35_OpenCircuitRecovers ==
    \A c \in AllChannels :
        []((/\ c \in channels
            /\ circuit[c].is_open
            /\ now - circuit[c].last_failure_time >= RecoveryTimeout
            /\ [](c \in channels /\ deliverable[c]))
           => <>(~circuit[c].is_open))

(***************************************************************************)
(* Claims on waiting for the shutdown                                      *)
(***************************************************************************)

\* C36: wait() and wait_with_timeout() return without blocking further
\* whenever shutdown has already been requested, also when request_shutdown
\* was called before the first wait() or before the signal handlers were
\* installed: a waiter of a requested shutdown has its event set.
C36_WaiterOfRequestedShutdownWakes ==
    (/\ exitCode = NoExit
     /\ shutdown_requested
     /\ waiterPc \in {"waiting", "waiting_timeout"})
        => shutdown_event = "set"

(***************************************************************************)
(* Claims on a failed start of the trade stream                            *)
(***************************************************************************)

\* C37: if start() of the trade-stream handler fails because the initial
\* connection cannot be established, the handler is left not running, so
\* that a subsequent start() makes a new connection attempt.
C37_FailedStartLeavesNotRunning ==
    (startRaised /\ startPc = "idle") => ~running

(***************************************************************************)
(* Claims on the metadata sync counters                                    *)
(***************************************************************************)

\* C38: whenever no metadata sync is in progress, total_syncs equals
\* successful_syncs plus failed_syncs: every sync attempt is counted
\* exactly once as either successful or failed.
C38_EverySyncCountedOnce ==
    (/\ \A c \in StartCalls : mstartPc[c] # "sync"
     /\ \A t \in TaskIds : taskPc[t] # "sync")
        => total_syncs = successful_syncs + failed_syncs

(***************************************************************************)
(* Claims on the batch nonce lookup                                        *)
(***************************************************************************)

\* C39: the batch nonce lookup never reports a nonce for an address whose
\* lookup failed: every value in the returned map is a transaction count
\* obtained from the cache or from an RPC endpoint.
C39_NoNonceForFailedLookup ==
    noncePc = "done" =>
        \A a \in DOMAIN nonceTasks :
            nonceTasks[a].status = "failed" => LowerAddr(a) \notin DOMAIN nonceResults

(***************************************************************************)
(* Claims on the requests behind an RPCError                               *)
(***************************************************************************)

\* C40: no chain call fails with RPCError without at least one RPC request
\* having been attempted for it on some endpoint; in particular a client
\* without a fallback still tries the primary on calls made after the
\* primary was marked unhealthy.
C40_RPCErrorOnlyAfterARequest ==
    \A c \in ChainCalls :
        cpc[c] = "RPCError" =>
            (CallLog(c, "primary") # <<>> \/ CallLog(c, "fallback") # <<>>)

====
